---- MODULE Spec2Model ----
(***************************************************************************)
(* Streaming detection and continuous-adaptation engine of modsec_ai:      *)
(* VectorCache, AlertManager (+ NotificationManager), RealTimeDetector,    *)
(* RuleBasedDetector and ModelUpdater.                                     *)
(*                                                                         *)
(* Each component is an object with its own state; the components share    *)
(* only the wall clock.  There is one specification per component          *)
(* (SpecCache, SpecAlert, SpecDetector, SpecRules, SpecUpdater); in each   *)
(* the other components stay in their constructed state.                   *)
(*                                                                         *)
(* Numbers.  Scores are rationals with one decimal, held as integers in    *)
(* tenths (Unit = 1.0).  Comparisons of means, deviations and ratios are   *)
(* cross-multiplied so that they are exact.  Wall-clock instants are       *)
(* integers (one unit = one hour for the cache TTL, one second for the     *)
(* alert window and the update interval).                                  *)
(***************************************************************************)
EXTENDS Integers, Sequences, FiniteSets, TLC

VARIABLES
    now,                 \* datetime.now()
    \* ---- VectorCache
    max_size,            \* self.max_size
    cache,               \* self.cache         : key -> vector (NoVec = key absent)
    access_times,        \* self.access_times  : insertion-ordered dict, <<[k, t], ...>>
    disk,                \* <cache_dir>/vector_cache.json
    vc_last,             \* the last VectorCache call: [op, tokens, ret]
    vc_put,              \* history: what the puts of this instance stored and still hold
    contexts,            \* per execution context: where its VectorCache call stands
    cc_last,             \* the call of a context that returned last
    \* ---- AlertManager
    am_cfg,              \* [threshold, window, notification_manager, notification_type]
    anomaly_history,     \* self.anomaly_history : <<[timestamp, id], ...>>
    sent,                \* what the notification manager was asked to send, in order
    am_next_id,          \* identity of the next submitted event
    am_last,             \* the last check_anomalies call
    \* ---- RealTimeDetector
    rt_cfg,              \* [window_size, min_anomaly_ratio, adaptive_threshold]
    score_window,        \* self.score_window (deque(maxlen=window_size))
    stats,               \* self.stats
    rt_fed,              \* scores fed since construction or the last reset
    rt_was_reset,        \* history: reset() has been called on this detector
    rt_last,             \* the last update call and what it returned
    \* ---- RuleBasedDetector
    rules,               \* self.rules
    rule_files,          \* the rule set files: path -> content
    rb_last,             \* the last RuleBasedDetector call
    \* ---- ModelUpdater
    mu_cfg,              \* [min_samples, update_interval, max_samples]
    data_buffer,         \* self.data_buffer (deque(maxlen=max_samples))
    last_update,         \* self.last_update
    models,              \* per model: generation of the object in memory
    saved_models,        \* per model: generation persisted under model_dir
    performance_history, \* number of samples appended to each metric history
    mu_next_id,          \* identity of the next buffered record
    mu_last,             \* the last update call: pre-state, steps taken, outcome
    \* ---- ScoreCombiner
    operation,           \* self.operation
    weights,             \* self.weights : model -> weight
    sc_last              \* the last ScoreCombiner call and its outcome

vc_vars == <<max_size, cache, access_times, disk, vc_last, vc_put, contexts, cc_last>>
am_vars == <<am_cfg, anomaly_history, sent, am_next_id, am_last>>
rt_vars == <<rt_cfg, score_window, stats, rt_fed, rt_was_reset, rt_last>>
rb_vars == <<rules, rule_files, rb_last>>
mu_vars == <<mu_cfg, data_buffer, last_update, models, saved_models,
             performance_history, mu_next_id, mu_last>>
sc_vars == <<operation, weights, sc_last>>

vars == <<now, vc_vars, am_vars, rt_vars, rb_vars, mu_vars, sc_vars>>

(***************************************************************************)
(* Bounds                                                                  *)
(***************************************************************************)
MaxTime == 2

Tick == /\ now < MaxTime
        /\ now' = now + 1

(***************************************************************************)
(* Generic helpers                                                         *)
(***************************************************************************)
Range(s) == { s[i] : i \in 1..Len(s) }

Min(a, b) == IF a < b THEN a ELSE b

\* variant: a full buffer refuses the new elements
KeepFirst(s, n) == IF Len(s) <= n THEN s ELSE SubSeq(s, 1, n)

\* deque(maxlen=n).append / extend: keep the last n elements
KeepLast(s, n) == IF Len(s) <= n THEN s ELSE SubSeq(s, Len(s) - n + 1, Len(s))

RECURSIVE SeqSum(_)
SeqSum(s) == IF s = <<>> THEN 0 ELSE Head(s) + SeqSum(Tail(s))

\* variant: a handler that raises the exception again
rethrow(raised_in_try) == raised_in_try

\* try: ... except Exception as e: logger.error(...): whether the statement
\* raises, given whether its try block raised
absorb(raised_in_try) == FALSE

(***************************************************************************)
(* VectorCache (src/utils/vector_cache.py)                                 *)
(***************************************************************************)
TokenLists == { <<"a">>, <<"a", "b">>, <<"a b">> }
\* a token list only an earlier run cached: its entry can be in the persisted
\* record, and this run neither gets nor puts it
EarlierTokens == <<"b">>
Vectors    == { "v1", "v2" }
\* put(tokens, vector): the pipeline caches the vectorizer's output for the
\* tokens; two token lists with the same joined text may carry different vectors
PutInputs  == { << <<"a">>, "v1" >>, << <<"a", "b">>, "v1" >>, << <<"a b">>, "v2" >> }
\* a tokens argument ' '.join rejects with TypeError (None, or a list holding
\* a value that is not a string)
BadTokens  == << "<not a str>" >>
NoVec      == "none"
CacheSizes == { 1, 2 }
IOOutcomes == { "ok", "error", "truncated" }

\* self.ttl = timedelta(hours=ttl_hours)
ttl == 1

\* ' '.join(tokens)
RECURSIVE join(_)
join(tokens) ==
    IF tokens = <<>> THEN ""
    ELSE IF Len(tokens) = 1 THEN tokens[1]
    ELSE tokens[1] \o " " \o join(Tail(tokens))

\* variant: only the first token is hashed
get_hash_first_token(tokens) == "md5:" \o tokens[1]

\* hashlib.md5(...).hexdigest(): a label of the joined text
get_hash(tokens) == "md5:" \o join(tokens)

KeyOrder == << get_hash(<<"a">>), get_hash(EarlierTokens), get_hash(<<"a", "b">>) >>
Keys     == { get_hash(t) : t \in TokenLists \cup {EarlierTokens} }

EmptyCache == [k \in Keys |-> NoVec]
CacheKeys(c) == { k \in Keys : c[k] # NoVec }
len(c) == Cardinality(CacheKeys(c))

\* the insertion-ordered dict access_times
AtKeys(at)      == { at[i].k : i \in 1..Len(at) }
AtGet(at, k)    == at[CHOOSE i \in 1..Len(at) : at[i].k = k].t
AtSet(at, k, t) ==
    IF k \in AtKeys(at)
    THEN [i \in 1..Len(at) |-> IF at[i].k = k THEN [k |-> k, t |-> t] ELSE at[i]]
    ELSE Append(at, [k |-> k, t |-> t])
AtDel(at, k)    == SelectSeq(at, LAMBDA e : e.k # k)
KeysOf(at)      == [i \in 1..Len(at) |-> at[i].k]

\* v.tolist() / np.array(v), t.isoformat() / datetime.fromisoformat(s)
tolist(v)        == <<"list", v>>
nparray(l)       == l[2]
isoformat(t)     == <<"iso", t>>
IsIso(s)         == s[1] = "iso"
fromisoformat(s) == s[2]
JsonAbsent       == <<"absent", "">>
MalformedTime    == <<"bad", 0>>

MissingFile   == [kind |-> "missing",   cache |-> [k \in Keys |-> JsonAbsent], access_times |-> <<>>]
MalformedFile == [kind |-> "malformed", cache |-> [k \in Keys |-> JsonAbsent], access_times |-> <<>>]

\* the document _save_cache writes for (c, at)
Document(c, at) ==
    [kind |-> "document",
     cache |-> [k \in Keys |-> IF c[k] = NoVec THEN JsonAbsent ELSE tolist(c[k])],
     access_times |-> [i \in 1..Len(at) |-> [k |-> at[i].k, t |-> isoformat(at[i].t)]]]

\* _save_cache: the exception of a failed write is logged, not raised
save_cache(c, at, io, d) ==
    CASE io = "ok"        -> Document(c, at)
      [] io = "error"     -> d
      [] io = "truncated" -> MalformedFile

\* _load_cache: self.cache is assigned (line 40) before the access times are
\* parsed (line 41); an exception leaves what was assigned so far
load_cache(d) ==
    IF d.kind # "document"
    THEN [cache |-> EmptyCache, access_times |-> <<>>]
    ELSE LET c == [k \in Keys |-> IF d.cache[k] = JsonAbsent THEN NoVec
                                  ELSE nparray(d.cache[k])]
         IN IF \A i \in 1..Len(d.access_times) : IsIso(d.access_times[i].t)
            THEN [cache |-> c,
                  access_times |-> [i \in 1..Len(d.access_times) |->
                                      [k |-> d.access_times[i].k,
                                       t |-> fromisoformat(d.access_times[i].t)]]]
            ELSE [cache |-> c, access_times |-> <<>>]

\* variant: the access times of the removed entries are kept
RECURSIVE del_entries_cache_only(_, _, _)
del_entries_cache_only(c, at, ks) ==
    IF ks = <<>> THEN [cache |-> c, access_times |-> at, raised |-> FALSE]
    ELSE del_entries_cache_only([c EXCEPT ![Head(ks)] = NoVec], at, Tail(ks))

\* for k in ks: del self.cache[k]; del self.access_times[k]   (KeyError aborts)
RECURSIVE del_entries(_, _, _)
del_entries(c, at, ks) ==
    IF ks = <<>> THEN [cache |-> c, access_times |-> at, raised |-> FALSE]
    ELSE IF c[Head(ks)] = NoVec
         THEN [cache |-> c, access_times |-> at, raised |-> TRUE]
         ELSE del_entries([c EXCEPT ![Head(ks)] = NoVec], AtDel(at, Head(ks)), Tail(ks))

\* sorted(self.access_times.keys(), key=lambda k: self.access_times[k])  (stable)
RECURSIVE InsertByTime(_, _)
InsertByTime(e, s) ==
    IF s = <<>> THEN <<e>>
    ELSE IF e.t <= Head(s).t THEN <<e>> \o s
    ELSE <<Head(s)>> \o InsertByTime(e, Tail(s))

RECURSIVE SortByTime(_)
SortByTime(at) == IF at = <<>> THEN <<>> ELSE InsertByTime(Head(at), SortByTime(Tail(at)))

sorted_keys(at) == KeysOf(SortByTime(at))

\* _cleanup: TTL pass, then the size pass, then _save_cache
cleanup(c, at, t, msize) ==
    LET expired_keys == KeysOf(SelectSeq(at, LAMBDA e : t - e.t > ttl))
        s1 == del_entries(c, at, expired_keys)
    IN IF s1.raised THEN [cache |-> s1.cache, access_times |-> s1.access_times, save |-> FALSE]
       ELSE IF len(s1.cache) > msize
            THEN LET sk == sorted_keys(s1.access_times)
                     n  == Min(len(s1.cache) - msize, Len(sk))
                     s2 == del_entries(s1.cache, s1.access_times, SubSeq(sk, 1, n))
                 IN [cache |-> s2.cache, access_times |-> s2.access_times,
                     save |-> ~s2.raised]
            ELSE [cache |-> s1.cache, access_times |-> s1.access_times, save |-> TRUE]

\* records a directory can hold when an instance is constructed over it:
\* nothing, an unparsable file, a document saved by an earlier instance
\* (any capacity), or a document whose access times do not parse
SavedState(K) ==
    Document([k \in Keys |-> IF k \in K THEN "v1" ELSE NoVec],
             [i \in 1..Len(SelectSeq(KeyOrder, LAMBDA k : k \in K)) |->
                [k |-> SelectSeq(KeyOrder, LAMBDA k : k \in K)[i], t |-> 0]])
BadTimes(d) ==
    [d EXCEPT !.access_times = [i \in 1..Len(d.access_times) |->
                                  [k |-> d.access_times[i].k, t |-> MalformedTime]]]
PersistedRecords ==
    { MissingFile, MalformedFile }
      \cup { SavedState(K) : K \in SUBSET Keys }
      \cup { BadTimes(SavedState(K)) : K \in (SUBSET Keys) \ {{}} }

\* History of the puts, per joined text: the token list and the vector of
\* the last put (Stored), NotPut when nothing was put, Unknown once the entry
\* was removed by a cleanup or when it came from the persisted record.
NotPut  == [state |-> "not put", tokens |-> <<>>, vector |-> NoVec]
Unknown == [state |-> "unknown", tokens |-> <<>>, vector |-> NoVec]
Stored(tokens, vector) == [state |-> "stored", tokens |-> tokens, vector |-> vector]
Texts   == { join(t) : t \in TokenLists }

Holds(c, x) == \E t \in TokenLists : join(t) = x /\ c[get_hash(t)] # NoVec

Loaded(c) == [x \in Texts |-> IF Holds(c, x) THEN Unknown ELSE NotPut]

\* put(tokens, vector) took the cache from c1 (after line 127) to c2
AfterPut(h, tokens, vector, c1, c2) ==
    [x \in Texts |-> IF Holds(c1, x) /\ ~Holds(c2, x) THEN Unknown
                     ELSE IF x = join(tokens) THEN Stored(tokens, vector) ELSE h[x]]

NoCall(op) == [op |-> op, tokens |-> <<>>, ret |-> NoVec, failed |-> FALSE,
               raised |-> FALSE, before |-> 0]

\* The execution contexts that call one VectorCache: the ingestion path
\* (get and put) and a second context whose put runs the eviction sweep.
\* The class takes no lock; a context can be suspended between two
\* statements of a call.
Contexts == { "ingestion", "sweeper" }

\* calls the contexts make together
MaxCalls == 3

Idle == [pc |-> "idle", op |-> "none", tokens |-> <<>>, vector |-> NoVec,
         todo |-> <<>>, pass |-> "none", calls |-> 0]

NoContextCall == [ctx |-> "none", op |-> "none", tokens |-> <<>>, ret |-> NoVec,
                  failed |-> FALSE]

VcInit(sizes, records) ==
    /\ max_size \in sizes
    /\ disk \in records
    /\ cache = load_cache(disk).cache
    /\ access_times = load_cache(disk).access_times
    /\ vc_last = NoCall("construct")
    /\ vc_put = Loaded(load_cache(disk).cache)
    /\ contexts = [c \in Contexts |-> Idle]
    /\ cc_last = NoContextCall

\* a later process constructs a VectorCache over the same directory
VectorCache_init ==
    /\ cache' = load_cache(disk).cache
    /\ access_times' = load_cache(disk).access_times
    /\ vc_last' = NoCall("construct")
    /\ vc_put' = Loaded(load_cache(disk).cache)
    /\ UNCHANGED <<max_size, disk, contexts, cc_last>>

\* the entry of key is in both maps and its last access is older than the TTL
Stale(c, at, key, t) ==
    c[key] # NoVec /\ key \in AtKeys(at) /\ t - AtGet(at, key) > ttl

\* variant: a hit leaves the access time as it is
VectorCache_get_untouched ==
    \E tokens \in TokenLists :
      /\ vc_last' = [op |-> "get", tokens |-> tokens, ret |-> cache[get_hash(tokens)],
                     failed |-> FALSE, raised |-> absorb(FALSE),
                     stale |-> Stale(cache, access_times, get_hash(tokens), now)]
      /\ UNCHANGED <<max_size, cache, access_times, disk, vc_put, contexts, cc_last>>

VectorCache_get ==
    \E tokens \in TokenLists \cup {BadTokens} :
      IF tokens = BadTokens
      THEN /\ vc_last' = [op |-> "get", tokens |-> tokens, ret |-> NoVec,
                          failed |-> TRUE, raised |-> absorb(TRUE), stale |-> FALSE]
           /\ UNCHANGED <<max_size, cache, access_times, disk, vc_put, contexts, cc_last>>
      ELSE LET key == get_hash(tokens) IN
           /\ IF cache[key] # NoVec
              THEN access_times' = AtSet(access_times, key, now)
              ELSE access_times' = access_times
           /\ vc_last' = [op |-> "get", tokens |-> tokens, ret |-> cache[key],
                          failed |-> FALSE, raised |-> absorb(FALSE),
                          stale |-> Stale(cache, access_times, key, now)]
           /\ UNCHANGED <<max_size, cache, disk, vc_put, contexts, cc_last>>

VectorCache_put ==
    \/ /\ vc_last' = [NoCall("put") EXCEPT !.tokens = BadTokens, !.failed = TRUE,
                                           !.raised = absorb(TRUE)]
       /\ UNCHANGED <<max_size, cache, access_times, disk, vc_put, contexts, cc_last>>
    \/ \E input \in PutInputs, io \in IOOutcomes :
         LET tokens == input[1]
             vector == input[2]
             key == get_hash(tokens)
             c1  == [cache EXCEPT ![key] = vector]
             at1 == AtSet(access_times, key, now)
             cl  == cleanup(c1, at1, now, max_size)
             save_failed    == cl.save /\ io # "ok"
             cleanup_failed == ~cl.save \/ absorb(save_failed)
         IN /\ IF len(c1) >= max_size
               THEN /\ cache' = cl.cache
                    /\ access_times' = cl.access_times
                    /\ disk' = IF cl.save
                               THEN save_cache(cl.cache, cl.access_times, io, disk)
                               ELSE disk
                    /\ vc_last' = [NoCall("put") EXCEPT
                                     !.tokens = tokens,
                                     !.failed = ~cl.save \/ save_failed,
                                     !.raised = absorb(absorb(cleanup_failed))]
               ELSE /\ io = "ok"
                    /\ cache' = c1
                    /\ access_times' = at1
                    /\ disk' = disk
                    /\ vc_last' = [NoCall("put") EXCEPT !.tokens = tokens,
                                                        !.raised = absorb(FALSE)]
            /\ vc_put' = AfterPut(vc_put, tokens, vector, c1, cache')
            /\ UNCHANGED <<max_size, contexts, cc_last>>

\* variant: the maps are emptied, the record is not written
VectorCache_clear_memory_only ==
    /\ cache' = EmptyCache
    /\ access_times' = <<>>
    /\ vc_last' = [NoCall("clear") EXCEPT !.before = len(cache)]
    /\ vc_put' = Loaded(EmptyCache)
    /\ UNCHANGED <<max_size, disk, contexts, cc_last>>

VectorCache_clear ==
    \E io \in IOOutcomes :
      /\ cache' = EmptyCache
      /\ access_times' = <<>>
      /\ disk' = save_cache(EmptyCache, <<>>, io, disk)
      /\ vc_last' = [NoCall("clear") EXCEPT !.failed = io # "ok",
                                            !.raised = absorb(absorb(io # "ok")),
                                            !.before = len(cache)]
      /\ vc_put' = Loaded(EmptyCache)
      /\ UNCHANGED <<max_size, contexts, cc_last>>

(***************************************************************************)
(* The same calls, one statement at a time, for two execution contexts.    *)
(* A step is one statement of get, put or _cleanup.  The entries of the     *)
(* record age before the contexts start; their calls then fall within one  *)
(* unit of the clock.                                                      *)
(***************************************************************************)

\* context c continues at pc with the state r
Goto(c, r) == contexts' = [contexts EXCEPT ![c] = r]

\* the call of context c returns
Return(c, ret, failed) ==
    /\ contexts' = [contexts EXCEPT ![c] = [Idle EXCEPT !.calls = contexts[c].calls]]
    /\ cc_last' = [ctx |-> c, op |-> contexts[c].op, tokens |-> contexts[c].tokens,
                   ret |-> ret, failed |-> failed]

Quiescent == \A c \in Contexts : contexts[c].pc = "idle"

RECURSIVE CallsOf(_)
CallsOf(S) == IF S = {} THEN 0
              ELSE LET c == CHOOSE x \in S : TRUE
                   IN contexts[c].calls + CallsOf(S \ {c})

\* get, lines 106-107 and 112: key = self._get_hash(tokens); if key in self.cache
get_check(c) ==
    \E tokens \in TokenLists :
      /\ c = "ingestion"
      /\ contexts[c].pc = "idle"
      /\ CallsOf(Contexts) < MaxCalls
      /\ IF cache[get_hash(tokens)] # NoVec
         THEN /\ Goto(c, [Idle EXCEPT !.pc = "get_touch", !.op = "get",
                                      !.tokens = tokens,
                                      !.calls = contexts[c].calls + 1])
              /\ UNCHANGED cc_last
         ELSE /\ cc_last' = [ctx |-> c, op |-> "get", tokens |-> tokens,
                              ret |-> NoVec, failed |-> FALSE]
              /\ Goto(c, [Idle EXCEPT !.calls = contexts[c].calls + 1])
      /\ UNCHANGED <<cache, access_times, disk>>

\* get, line 110: self.access_times[key] = datetime.now()
get_touch(c) ==
    /\ contexts[c].pc = "get_touch"
    /\ access_times' = AtSet(access_times, get_hash(contexts[c].tokens), now)
    /\ Goto(c, [contexts[c] EXCEPT !.pc = "get_return"])
    /\ UNCHANGED <<cache, disk, cc_last>>

\* get, line 111: return self.cache[key]; a KeyError is logged and None returned
get_return(c) ==
    /\ contexts[c].pc = "get_return"
    /\ Return(c, cache[get_hash(contexts[c].tokens)],
              cache[get_hash(contexts[c].tokens)] = NoVec)
    /\ UNCHANGED <<cache, access_times, disk>>

\* put, lines 125-126: self.cache[key] = vector
put_store(c) ==
    \E input \in PutInputs :
      /\ contexts[c].pc = "idle"
      /\ CallsOf(Contexts) < MaxCalls
      /\ cache' = [cache EXCEPT ![get_hash(input[1])] = input[2]]
      /\ Goto(c, [Idle EXCEPT !.pc = "put_touch", !.op = "put", !.tokens = input[1],
                              !.vector = input[2], !.calls = contexts[c].calls + 1])
      /\ UNCHANGED <<access_times, disk, cc_last>>

\* put, line 127: self.access_times[key] = datetime.now()
put_touch(c) ==
    /\ contexts[c].pc = "put_touch"
    /\ access_times' = AtSet(access_times, get_hash(contexts[c].tokens), now)
    /\ Goto(c, [contexts[c] EXCEPT !.pc = "put_check"])
    /\ UNCHANGED <<cache, disk, cc_last>>

\* put, lines 130-131: if len(self.cache) >= self.max_size: self._cleanup()
put_check(c) ==
    /\ contexts[c].pc = "put_check"
    /\ IF len(cache) >= max_size
       THEN Goto(c, [contexts[c] EXCEPT !.pc = "cleanup_expired"]) /\ UNCHANGED cc_last
       ELSE Return(c, NoVec, FALSE)
    /\ UNCHANGED <<cache, access_times, disk>>

\* _cleanup, lines 71-74: the list of the expired keys
cleanup_expired(c) ==
    /\ contexts[c].pc = "cleanup_expired"
    /\ LET expired_keys == KeysOf(SelectSeq(access_times, LAMBDA e : now - e.t > ttl))
       IN Goto(c, [contexts[c] EXCEPT
                     !.pc = IF expired_keys = <<>> THEN "cleanup_size" ELSE "del_cache",
                     !.todo = expired_keys, !.pass = "ttl"])
    /\ UNCHANGED <<cache, access_times, disk, cc_last>>

\* _cleanup, lines 76 and 88: del self.cache[k]; a KeyError ends the cleanup
\* (lines 94-95) and with it the put
cleanup_del_cache(c) ==
    /\ contexts[c].pc = "del_cache"
    /\ LET k == Head(contexts[c].todo)
       IN IF cache[k] = NoVec
          THEN Return(c, NoVec, TRUE) /\ UNCHANGED cache
          ELSE /\ cache' = [cache EXCEPT ![k] = NoVec]
               /\ Goto(c, [contexts[c] EXCEPT !.pc = "del_time"])
               /\ UNCHANGED cc_last
    /\ UNCHANGED <<access_times, disk>>

\* _cleanup, lines 77 and 89: del self.access_times[k]
cleanup_del_time(c) ==
    /\ contexts[c].pc = "del_time"
    /\ LET k    == Head(contexts[c].todo)
           rest == Tail(contexts[c].todo)
       IN IF k \notin AtKeys(access_times)
          THEN Return(c, NoVec, TRUE) /\ UNCHANGED access_times
          ELSE /\ access_times' = AtDel(access_times, k)
               /\ Goto(c, [contexts[c] EXCEPT
                             !.todo = rest,
                             !.pc = IF rest # <<>> THEN "del_cache"
                                    ELSE IF contexts[c].pass = "ttl" THEN "cleanup_size"
                                    ELSE "save"])
               /\ UNCHANGED cc_last
    /\ UNCHANGED <<cache, disk>>

\* _cleanup, lines 80-87: the keys sorted by access time and the number of
\* entries above max_size
cleanup_size(c) ==
    /\ contexts[c].pc = "cleanup_size"
    /\ LET sk == sorted_keys(access_times)
           n  == Min(len(cache) - max_size, Len(sk))
       IN Goto(c, [contexts[c] EXCEPT
                     !.pc = IF len(cache) > max_size /\ n > 0 THEN "del_cache" ELSE "save",
                     !.todo = IF len(cache) > max_size THEN SubSeq(sk, 1, n) ELSE <<>>,
                     !.pass = "size"])
    /\ UNCHANGED <<cache, access_times, disk, cc_last>>

\* _cleanup, line 92: self._save_cache()
cleanup_save(c) ==
    \E io \in IOOutcomes :
      /\ contexts[c].pc = "save"
      /\ disk' = save_cache(cache, access_times, io, disk)
      /\ Return(c, NoVec, io # "ok")
      /\ UNCHANGED <<cache, access_times>>

(***************************************************************************)
(* NotificationManager (src/utils/notifications.py)                        *)
(* AlertManager        (src/utils/alert_manager.py)                        *)
(***************************************************************************)
MaxEvents == 4
MaxBatch  == 2
MaxSent   == 4

ChannelOutcomes == { "ok", "raises" }

\* --alert-threshold and --alert-window are integers (0 is accepted); the
\* pipeline injects a NotificationManager or nothing (scripts/detect_anomalies.py)
AmThresholds == { 0, 1, 2, 3 }

AmConfigs ==
    { [threshold |-> th, window |-> 2, notification_manager |-> nm, notification_type |-> ty] :
        th \in AmThresholds, nm \in BOOLEAN, ty \in {"email", "sms"} }
      \ { [threshold |-> th, window |-> 2, notification_manager |-> FALSE, notification_type |-> "sms"] :
            th \in AmThresholds }

\* _send_email / _send_slack / _send_webhook: log and re-raise on failure
send_channel(channel) == [raised |-> channel = "raises"]

\* variant: send_notification without its try/except
send_notification_propagates(notification_type, channel) ==
    IF notification_type \in {"email", "slack", "webhook"}
    THEN [raised |-> channel = "raises", delivered |-> channel = "ok"]
    ELSE [raised |-> FALSE, delivered |-> FALSE]

\* NotificationManager.send_notification: every exception of the channel is
\* caught and logged; an unsupported type is logged
send_notification(notification_type, channel) ==
    IF notification_type \in {"email", "slack", "webhook"}
    THEN [raised |-> absorb(send_channel(channel).raised),
          delivered |-> ~send_channel(channel).raised]
    ELSE [raised |-> FALSE, delivered |-> FALSE]

\* _create_anomaly_summary: never raises (its own except returns a text)
create_anomaly_summary(h) == [count |-> Len(h), ids |-> { h[i].id : i \in 1..Len(h) }]

\* variant: the reset sits inside the if, next to the notification call
trigger_alert_reset_in_if(h, cfg, channel) ==
    LET summary == create_anomaly_summary(h)
        r == IF cfg.notification_manager
             THEN send_notification(cfg.notification_type, channel)
             ELSE [raised |-> FALSE, delivered |-> FALSE]
    IN [history  |-> IF r.raised \/ ~cfg.notification_manager THEN h ELSE <<>>,
        requests |-> IF cfg.notification_manager
                     THEN << [ids |-> summary.ids, delivered |-> r.delivered] >>
                     ELSE <<>>,
        dispatch |-> IF ~cfg.notification_manager THEN "none"
                     ELSE IF r.raised \/ ~r.delivered THEN "failed" ELSE "ok",
        raised   |-> absorb(r.raised)]

\* _trigger_alert: the history is reset after the notification call, inside
\* the same try block
trigger_alert(h, cfg, channel) ==
    LET summary == create_anomaly_summary(h)
        r == IF cfg.notification_manager
             THEN send_notification(cfg.notification_type, channel)
             ELSE [raised |-> FALSE, delivered |-> FALSE]
    IN [history  |-> IF r.raised THEN h ELSE <<>>,
        requests |-> IF cfg.notification_manager
                     THEN << [ids |-> summary.ids, delivered |-> r.delivered] >>
                     ELSE <<>>,
        dispatch |-> IF ~cfg.notification_manager THEN "none"
                     ELSE IF r.raised \/ ~r.delivered THEN "failed" ELSE "ok",
        raised   |-> absorb(r.raised)]

\* variant: an entry exactly window old is kept
prune_inclusive(h, cutoff_time) == SelectSeq(h, LAMBDA a : a.timestamp >= cutoff_time)

\* [anomaly for anomaly in self.anomaly_history if anomaly['timestamp'] > cutoff_time]
prune(h, cutoff_time) == SelectSeq(h, LAMBDA a : a.timestamp > cutoff_time)

\* variant: the rows of a batch are put in front of the history
append_rows_front(h, rows) == rows \o h

\* for _, anomaly in anomalies_df.iterrows(): self.anomaly_history.append({...})
append_rows(h, rows) == h \o rows

\* an anomalies_df argument without iterrows (None): line 32 raises
NotAFrame == -1

NoCheck == [batch |-> 0, reached |-> FALSE, invoked |-> 0, dispatch |-> "none",
            before |-> 0, called |-> FALSE, time |-> 0, pre |-> <<>>,
            failed |-> FALSE, raised |-> FALSE]

AmInit(cfgs) ==
    /\ am_cfg \in cfgs
    /\ anomaly_history = <<>>
    /\ sent = <<>>
    /\ am_next_id = 1
    /\ am_last = NoCheck

AlertManager_check_anomalies ==
    \/ /\ am_last' = [NoCheck EXCEPT !.batch = NotAFrame, !.called = TRUE,
                                     !.before = Len(anomaly_history),
                                     !.time = now, !.pre = anomaly_history,
                                     !.failed = TRUE, !.raised = absorb(TRUE)]
       /\ UNCHANGED <<am_cfg, anomaly_history, sent, am_next_id>>
    \/ \E n \in 0..MaxBatch, channel \in ChannelOutcomes :
         LET appended == append_rows(anomaly_history,
                           [i \in 1..n |-> [timestamp |-> now, id |-> am_next_id + i - 1]])
             cutoff_time == now - am_cfg.window
             pruned == prune(appended, cutoff_time)
             fire == Len(pruned) >= am_cfg.threshold
             ta == trigger_alert(pruned, am_cfg, channel)
         IN /\ am_next_id + n <= MaxEvents + 1
            /\ (fire /\ am_cfg.notification_manager) => Len(sent) < MaxSent
            /\ (fire /\ am_cfg.notification_manager) \/ channel = "ok"
            /\ anomaly_history' = IF fire THEN ta.history ELSE pruned
            /\ sent' = IF fire THEN sent \o ta.requests ELSE sent
            /\ am_next_id' = am_next_id + n
            /\ am_last' = [batch |-> n, reached |-> fire,
                           invoked |-> IF fire THEN Len(ta.requests) ELSE 0,
                           dispatch |-> IF fire THEN ta.dispatch ELSE "none",
                           before |-> Len(anomaly_history),
                           called |-> TRUE, time |-> now, pre |-> anomaly_history,
                           failed |-> /\ fire /\ am_cfg.notification_manager
                                      /\ am_cfg.notification_type # "sms"
                                      /\ send_channel(channel).raised,
                           raised |-> absorb(fire /\ ta.raised)]
            /\ UNCHANGED am_cfg

(***************************************************************************)
(* RealTimeDetector (src/utils/real_time_detector.py)                      *)
(***************************************************************************)
MaxLogs == 7

\* 1.0 in tenths
Unit == 10

\* a score no arithmetic is defined on (None, a string): np.mean raises
NonNumeric == -1

\* 0.1, 0.3 and 5.0
Scores == { 1, 3, 50 }

\* ratios are pairs <<numerator, denominator>>
RtConfigs ==
    { [window_size |-> 5, min_anomaly_ratio |-> <<1, 5>>,  adaptive_threshold |-> FALSE],
      [window_size |-> 6, min_anomaly_ratio |-> <<1, 10>>, adaptive_threshold |-> FALSE],
      [window_size |-> 4, min_anomaly_ratio |-> <<1, 10>>, adaptive_threshold |-> FALSE],
      [window_size |-> 3, min_anomaly_ratio |-> <<1, 5>>,  adaptive_threshold |-> TRUE],
      [window_size |-> 4, min_anomaly_ratio |-> <<1, 10>>, adaptive_threshold |-> TRUE],
      [window_size |-> 2, min_anomaly_ratio |-> <<1, 10>>, adaptive_threshold |-> TRUE] }

RatioGeq(r, q) == r[1] * q[2] >= q[1] * r[2]

Abs(x) == IF x < 0 THEN -x ELSE x

RECURSIVE InsertInt(_, _)
InsertInt(x, s) ==
    IF s = <<>> THEN <<x>>
    ELSE IF x <= Head(s) THEN <<x>> \o s
    ELSE <<Head(s)>> \o InsertInt(x, Tail(s))

RECURSIVE SortInts(_)
SortInts(s) == IF s = <<>> THEN <<>> ELSE InsertInt(Head(s), SortInts(Tail(s)))

Squares(w) == [i \in 1..Len(w) |-> w[i] * w[i]]

\* np.mean(w) = SeqSum(w) / Len(w);  np.std(w) = sqrt(VarNum(w)) / Len(w)
VarNum(w) == Len(w) * SeqSum(Squares(w)) - SeqSum(w) * SeqSum(w)

ThresholdInf   == [kind |-> "inf", num |-> 0, den |-> 1, var |-> 0]
ThresholdZero  == [kind |-> "rational", num |-> 0, den |-> 1, var |-> 0]

\* The windows of Scores, of at most 6 scores, where mean + 2 * std is
\* exactly the last score and np.mean(w) + 2 * np.std(w), computed in
\* doubles, falls one place below it: for 0.1, 0.1, 0.1, 0.1, 0.3 the mean is
\* 0.14, the deviation 0.08 and the sum 0.30000000000000004 in exact
\* arithmetic of the doubles, but the computed threshold is
\* 0.29999999999999993 < 0.3.  (For 0.1 or 0.3 four times and then 5.0 the
\* computed threshold is 5.0; no other window of these scores is that close.)
RoundedBelow == { <<1, 1, 1, 1, 3>> }

\* variant: the mean alone
fixed_threshold_mean(w) ==
    [kind |-> "fixed", num |-> SeqSum(w), den |-> Len(w), var |-> 0]

\* mean + 2 * std:  num/den + 2 * sqrt(var)/den
fixed_threshold(w) ==
    [kind |-> IF w \in RoundedBelow THEN "fixed_below" ELSE "fixed",
     num |-> SeqSum(w), den |-> Len(w), var |-> VarNum(w)]

\* np.std(w) as the test 'std == 0' (line 108) sees it.  The scores are
\* binary floating-point numbers: for a window of equal scores the computed
\* mean can differ from the scores in the last place, which leaves a rounding
\* residue instead of 0 (0.1 three times: mean 0.10000000000000002, std
\* 1.4e-17); (v + v) / 2 is exact, so this needs three scores or more.
StdOutcomes(w) ==
    IF VarNum(w) # 0 THEN { "positive" }
    ELSE IF Len(w) >= 3 THEN { "zero", "residue" }
    ELSE { "zero" }

\* variant: without the guards of lines 100-101 and 108-109
calculate_adaptive_threshold_unguarded(w, std) ==
    LET n == Len(w)
        devs == SortInts([i \in 1..n |-> Abs(n * w[i] - SeqSum(w))])
        lo   == (19 * (n - 1)) \div 20
        rem  == (19 * (n - 1)) % 20
        p20  == 20 * devs[lo + 1]
                  + (IF rem = 0 THEN 0 ELSE rem * (devs[lo + 2] - devs[lo + 1]))
    IN [kind |-> "rational", num |-> 20 * SeqSum(w) + p20, den |-> 20 * n, var |-> 0]

\* _calculate_adaptive_threshold.  With std # 0 the threshold
\*   mean + percentile(|w - mean| / std, 95) * std
\* equals mean + percentile(|w - mean|, 95); np.percentile interpolates
\* linearly at index 0.95 * (n - 1) of the sorted values.  With a residue
\* all z-scores are equal and the threshold is the common score, up to
\* rounding and never below it.
calculate_adaptive_threshold(w, std) ==
    LET n == Len(w) IN
    IF n < 2 THEN ThresholdInf
    ELSE IF std = "zero"
         THEN [kind |-> "rational", num |-> SeqSum(w) + Unit * n, den |-> n, var |-> 0]
         ELSE LET devs == SortInts([i \in 1..n |-> Abs(n * w[i] - SeqSum(w))])
                  lo   == (19 * (n - 1)) \div 20
                  rem  == (19 * (n - 1)) % 20
                  p20  == 20 * devs[lo + 1]
                            + (IF rem = 0 THEN 0 ELSE rem * (devs[lo + 2] - devs[lo + 1]))
              IN [kind |-> "rational", num |-> 20 * SeqSum(w) + p20, den |-> 20 * n,
                  var |-> 0]

\* variant: score >= threshold
exceeds_or_equals(score, th) ==
    CASE th.kind = "inf"      -> FALSE
      [] th.kind = "rational" -> score * th.den >= th.num
      [] th.kind = "fixed"    ->
           LET d == th.den * score - th.num
           IN d >= 0 /\ d * d >= 4 * th.var
      [] th.kind = "fixed_below" ->
           LET d == th.den * score - th.num
           IN d >= 0 /\ d * d >= 4 * th.var

\* score > threshold
exceeds(score, th) ==
    CASE th.kind = "inf"      -> FALSE
      [] th.kind = "rational" -> score * th.den > th.num
      [] th.kind = "fixed"    ->
           LET d == th.den * score - th.num
           IN d > 0 /\ d * d > 4 * th.var
      [] th.kind = "fixed_below" ->
           LET d == th.den * score - th.num
           IN d > 0 /\ d * d >= 4 * th.var

\* variant: the ratio alone decides
alert_condition_ratio_only(cfg, w, ratio) ==
    RatioGeq(ratio, cfg.min_anomaly_ratio)

\* len(self.score_window) >= self.window_size and ratio >= self.min_anomaly_ratio
alert_condition(cfg, w, ratio) ==
    Len(w) >= cfg.window_size /\ RatioGeq(ratio, cfg.min_anomaly_ratio)

\* variant: operands exchanged
anomaly_ratio_inverted(total_anomalies, total_logs) == <<total_logs, total_anomalies>>

\* self.stats['total_anomalies'] / self.stats['total_logs']
anomaly_ratio(total_anomalies, total_logs) == <<total_anomalies, total_logs>>

\* the stats dictionary of __init__ and reset()
reset_stats ==
    [total_logs |-> 0, total_anomalies |-> 0, current_anomaly_ratio |-> <<0, 1>>,
     mean_score |-> <<0, 1>>, var_score |-> <<0, 1>>, current_threshold |-> ThresholdZero]

NoResult == [op |-> "construct", returned |-> FALSE, score |-> 0, is_anomaly |-> FALSE,
             alert_triggered |-> FALSE, threshold |-> ThresholdZero, std |-> "none"]

RtInit(cfgs) ==
    /\ rt_cfg \in cfgs
    /\ score_window = <<>>
    /\ stats = reset_stats
    /\ rt_fed = 0
    /\ rt_was_reset = FALSE
    /\ rt_last = NoResult

RealTimeDetector_update ==
    \E score \in Scores \cup {NonNumeric}, std \in {"zero", "residue", "positive"} :
      LET w == KeepLast(Append(score_window, score), rt_cfg.window_size)
          total_logs == stats.total_logs + 1
          failed == \E i \in 1..Len(w) : w[i] = NonNumeric
          threshold == IF rt_cfg.adaptive_threshold
                       THEN calculate_adaptive_threshold(w, std)
                       ELSE fixed_threshold(w)
          is_anomaly == exceeds(score, threshold)
          total_anomalies == IF is_anomaly THEN stats.total_anomalies + 1
                             ELSE stats.total_anomalies
          ratio == anomaly_ratio(total_anomalies, total_logs)
          alert_triggered == alert_condition(rt_cfg, w, ratio)
      IN /\ stats.total_logs < MaxLogs
         /\ IF failed \/ ~rt_cfg.adaptive_threshold
            THEN std = "zero"
            ELSE std \in StdOutcomes(w)
         /\ score_window' = w
         /\ rt_fed' = rt_fed + 1
         /\ IF failed
            THEN /\ stats' = [stats EXCEPT !.total_logs = total_logs]
                 /\ rt_last' = [NoResult EXCEPT !.op = "update", !.score = score]
            ELSE /\ stats' = [total_logs |-> total_logs,
                              total_anomalies |-> total_anomalies,
                              current_anomaly_ratio |-> ratio,
                              mean_score |-> <<SeqSum(w), Len(w)>>,
                              var_score |-> <<VarNum(w), Len(w) * Len(w)>>,
                              current_threshold |-> threshold]
                 /\ rt_last' = [op |-> "update", returned |-> TRUE, score |-> score,
                                is_anomaly |-> is_anomaly,
                                alert_triggered |-> alert_triggered,
                                threshold |-> threshold,
                                std |-> IF rt_cfg.adaptive_threshold /\ Len(w) >= 2
                                        THEN std ELSE "none"]
         /\ UNCHANGED <<rt_cfg, rt_was_reset>>

\* variant: the statistics start over, the window is kept
RealTimeDetector_reset_stats_only ==
    /\ stats' = reset_stats
    /\ rt_fed' = 0
    /\ rt_was_reset' = TRUE
    /\ rt_last' = [NoResult EXCEPT !.op = "reset"]
    /\ UNCHANGED <<rt_cfg, score_window>>

RealTimeDetector_reset ==
    /\ score_window' = <<>>
    /\ stats' = reset_stats
    /\ rt_fed' = 0
    /\ rt_was_reset' = TRUE
    /\ rt_last' = [NoResult EXCEPT !.op = "reset"]
    /\ UNCHANGED rt_cfg

(***************************************************************************)
(* RuleBasedDetector (src/utils/rule_based_detector.py)                    *)
(***************************************************************************)
MaxRules == 2

\* patterns re.compile rejects with re.error
InvalidPatterns == { "[unclosed", "(" }

\* re.compile(p) succeeds
compiles(p) == p \notin InvalidPatterns

\* rules are dicts: functions whose domain is the set of keys present
RuleSqli      == [name |-> "Detect SQLi", pattern |-> "union.+select", severity |-> "high",
                  description |-> "SQL injection pattern",
                  conditions |-> [uri |-> "/login"]]
RuleAdmin     == [name |-> "Cond", pattern |-> "admin", severity |-> "medium"]
RuleNoPattern == [name |-> "NoPattern", severity |-> "low"]
RuleNoName    == [pattern |-> "admin", severity |-> "low"]
RuleNoSev     == [name |-> "NoSeverity", pattern |-> "admin"]
RuleBadPat    == [name |-> "bad", pattern |-> "[unclosed", severity |-> "low"]
RuleBadCond   == [name |-> "badcond", pattern |-> "admin", severity |-> "low",
                  conditions |-> [uri |-> "(", method |-> "POST"]]

\* a rule argument that is not a dict (None): 'field in rule' raises TypeError
NotARule      == [none |-> "None"]

RuleInputs == { RuleSqli, RuleAdmin, RuleNoPattern, RuleNoName, RuleNoSev,
                RuleBadPat, RuleBadCond, NotARule }

\* _validate_rule
validate_rule(rule) ==
    IF ~({"name", "pattern", "severity"} \subseteq DOMAIN rule) THEN FALSE
    ELSE compiles(rule.pattern)

\* file contents: no file, text json.load rejects, the object {}, or an
\* object with a 'rules' list
FileMissing   == [kind |-> "missing",   rules |-> <<>>]
FileMalformed == [kind |-> "malformed", rules |-> <<>>]
FileNoRules   == [kind |-> "object",    rules |-> <<>>]

\* the keys of rules and of their conditions, in the order the dicts list them
MemberOrder == << "name", "pattern", "severity", "description", "conditions",
                  "uri", "method" >>

Members(d) == SelectSeq(MemberOrder, LAMBDA k : k \in DOMAIN d)

\* variant: only the required fields are written
json_dump_required(d) ==
    LET ks == SelectSeq(Members(d), LAMBDA k : k \in {"name", "pattern", "severity"})
    IN [i \in 1..Len(ks) |-> [key |-> ks[i], string |-> d[ks[i]]]]

\* json.dump of a dict: its members in order, a str as a string and a dict
\* (the conditions) as a nested object
RECURSIVE json_dump(_)
json_dump(d) ==
    LET ks == Members(d)
    IN [i \in 1..Len(ks) |->
          IF ks[i] = "conditions"
          THEN [key |-> ks[i], object |-> json_dump(d[ks[i]])]
          ELSE [key |-> ks[i], string |-> d[ks[i]]]]

\* json.load of an object: a dict of its members, nested objects as dicts
RECURSIVE json_load(_)
json_load(ms) ==
    [k \in { ms[i].key : i \in 1..Len(ms) } |->
        LET member == ms[CHOOSE i \in 1..Len(ms) :
                            ms[i].key = k /\ \A j \in (i + 1)..Len(ms) : ms[j].key # k]
        IN IF "object" \in DOMAIN member THEN json_load(member.object)
           ELSE member.string]

\* json.dump({'rules': rs}, f, indent=2)
RulesDocument(rs) ==
    [kind |-> "document", rules |-> [i \in 1..Len(rs) |-> json_dump(rs[i])]]

RuleFileNames == { "rules.json", "out.json" }

InitialRuleFiles ==
    { FileMissing, FileMalformed, FileNoRules,
      RulesDocument(<<RuleSqli>>), RulesDocument(<<RuleBadPat>>),
      RulesDocument(<<RuleAdmin, RuleNoPattern>>),
      RulesDocument(<<RuleAdmin, RuleNoSev>>) }

\* load_rules: the rule list the detector holds after loading content f
load_rules(f, current) ==
    CASE f.kind = "missing"   -> current
      [] f.kind = "malformed" -> current
      [] f.kind = "object"    -> <<>>
      [] f.kind = "document"  -> [i \in 1..Len(f.rules) |-> json_load(f.rules[i])]

\* ---- regular expressions.  Texts are sequences of words; a compiled
\* pattern is a sequence of literal words and AnyPlus (".+": one or more
\* characters, here one or more words or separating spaces).
AnyPlus == "<.+>"
Space   == " "

\* re.compile(p) for the patterns that compile
regex(p) ==
    CASE p = "union.+select" -> << "union", AnyPlus, "select" >>
      [] p = "admin"         -> << "admin" >>
      [] p = "/login"        -> << "/login" >>
      [] p = "POST"          -> << "POST" >>

\* the compiled pattern prog matches text from position start on
RECURSIVE match(_, _, _)
match(prog, text, start) ==
    IF prog = <<>> THEN TRUE
    ELSE IF start > Len(text) THEN FALSE
    ELSE IF Head(prog) = AnyPlus
         THEN \E next \in (start + 1)..(Len(text) + 1) : match(Tail(prog), text, next)
         ELSE text[start] = Head(prog) /\ match(Tail(prog), text, start + 1)

\* re.search(p, text) is not None
search(p, text) == \E start \in 1..Len(text) : match(regex(p), text, start)

\* ---- log entries: insertion-ordered dicts, <<[field, value], ...>>
LogLoginSqli  == << [field |-> "uri",    value |-> << "/login" >>],
                    [field |-> "body",   value |-> << "admin", "union", "all", "select" >>],
                    [field |-> "method", value |-> << "POST" >>] >>
LogHomeSqli   == << [field |-> "uri",    value |-> << "/home" >>],
                    [field |-> "body",   value |-> << "admin", "union", "all", "select" >>],
                    [field |-> "method", value |-> << "POST" >>] >>
LogLoginAdmin == << [field |-> "uri",    value |-> << "/login" >>],
                    [field |-> "body",   value |-> << "admin" >>],
                    [field |-> "method", value |-> << "GET" >>] >>
LogSplit      == << [field |-> "query",  value |-> << "union" >>],
                    [field |-> "body",   value |-> << "select" >>] >>
\* a log_entry argument that is not a dict (None)
NotAnEntry    == << [field |-> "<None>", value |-> <<>>] >>

LogEntries == { LogLoginSqli, LogHomeSqli, LogLoginAdmin, LogSplit }

Fields(log_entry) == { log_entry[i].field : i \in 1..Len(log_entry) }
Value(log_entry, f) ==
    log_entry[CHOOSE i \in 1..Len(log_entry) : log_entry[i].field = f].value

\* ' '.join(str(v) for v in log_entry.values())
RECURSIVE join_values(_)
join_values(log_entry) ==
    IF log_entry = <<>> THEN <<>>
    ELSE IF Len(log_entry) = 1 THEN log_entry[1].value
    ELSE log_entry[1].value \o <<Space>> \o join_values(Tail(log_entry))

\* rule.get('conditions', {})
conditions_of(rule) ==
    IF "conditions" \in DOMAIN rule THEN rule.conditions ELSE <<>>

\* _check_rule: every exception (re.error of a pattern that does not compile,
\* KeyError of a missing 'pattern', TypeError of an entry that is not a dict)
\* is caught and gives False
check_rule(rule, log_entry) ==
    IF log_entry = NotAnEntry THEN FALSE
    ELSE LET conditions == conditions_of(rule)
             conditions_hold ==
                 \A f \in DOMAIN conditions :
                     /\ f \in Fields(log_entry)
                     /\ compiles(conditions[f])
                     /\ search(conditions[f], Value(log_entry, f))
         IN /\ conditions_hold
            /\ "pattern" \in DOMAIN rule
            /\ compiles(rule.pattern)
            /\ search(rule.pattern, join_values(log_entry))

\* the dict appended to triggered_rules
hit_of(rule, t) ==
    [rule_name |-> rule.name, severity |-> rule.severity,
     description |-> IF "description" \in DOMAIN rule THEN rule.description ELSE "",
     timestamp |-> isoformat(t)]

\* the loop of detect: rule['name'] / rule['severity'] of a triggered rule
\* that lacks the key raises KeyError, which leaves the loop
RECURSIVE detect_loop(_, _, _, _)
detect_loop(rs, log_entry, t, triggered_rules) ==
    IF rs = <<>> THEN [hits |-> triggered_rules, raised |-> FALSE]
    ELSE IF ~check_rule(Head(rs), log_entry)
         THEN detect_loop(Tail(rs), log_entry, t, triggered_rules)
         ELSE IF ~({"name", "severity"} \subseteq DOMAIN Head(rs))
              THEN [hits |-> triggered_rules, raised |-> TRUE]
              ELSE detect_loop(Tail(rs), log_entry, t,
                               Append(triggered_rules, hit_of(Head(rs), t)))

\* detect: the handler around the loop returns []
detect(rs, log_entry, t) ==
    LET r == detect_loop(rs, log_entry, t, <<>>)
    IN [hits   |-> IF r.raised THEN <<>> ELSE r.hits,
        failed |-> r.raised \/ (log_entry = NotAnEntry /\ rs # <<>>),
        raised |-> absorb(r.raised)]

NoRuleCall == [op |-> "construct", arg |-> [name |-> ""], before |-> <<>>,
               entry |-> <<>>, hits |-> <<>>, failed |-> FALSE, raised |-> FALSE,
               path |-> ""]

\* RuleBasedDetector(rules_file) or RuleBasedDetector()
RbInit(files) ==
    /\ rule_files \in [RuleFileNames -> files]
    /\ rule_files["out.json"] = FileMissing
    /\ \E with_file \in BOOLEAN :
         rules = IF with_file THEN load_rules(rule_files["rules.json"], <<>>) ELSE <<>>
    /\ rb_last = NoRuleCall

RuleBasedDetector_load_rules ==
    \E path \in RuleFileNames :
      /\ rules' = load_rules(rule_files[path], rules)
      /\ rb_last' = [NoRuleCall EXCEPT !.op = "load_rules", !.before = rules,
                        !.path = path,
                        !.failed = rule_files[path].kind = "malformed",
                        !.raised = absorb(rule_files[path].kind = "malformed")]
      /\ UNCHANGED rule_files

RuleBasedDetector_add_rule ==
    \E rule \in RuleInputs :
      /\ Len(rules) < MaxRules
      /\ rules' = IF rule # NotARule /\ validate_rule(rule) THEN Append(rules, rule)
                  ELSE rules
      /\ rb_last' = [NoRuleCall EXCEPT !.op = "add_rule", !.arg = rule, !.before = rules,
                        !.failed = rule = NotARule,
                        !.raised = absorb(rule = NotARule)]
      /\ UNCHANGED rule_files

RuleBasedDetector_detect ==
    \E log_entry \in LogEntries \cup {NotAnEntry} :
      LET r == detect(rules, log_entry, now)
      IN /\ rb_last' = [NoRuleCall EXCEPT !.op = "detect", !.before = rules,
                           !.entry = log_entry, !.hits = r.hits,
                           !.failed = r.failed, !.raised = r.raised]
         /\ UNCHANGED <<rules, rule_files>>

RuleBasedDetector_save_rules ==
    \E path \in RuleFileNames, io \in IOOutcomes :
      /\ rule_files' = [rule_files EXCEPT ![path] =
                          CASE io = "ok"        -> RulesDocument(rules)
                            [] io = "error"     -> @
                            [] io = "truncated" -> FileMalformed]
      /\ rb_last' = [NoRuleCall EXCEPT !.op = "save_rules", !.before = rules,
                        !.path = path,
                        !.failed = io # "ok", !.raised = absorb(io # "ok")]
      /\ UNCHANGED rules

RuleBasedDetector_clear_rules ==
    /\ rules' = <<>>
    /\ rb_last' = [NoRuleCall EXCEPT !.op = "clear_rules", !.before = rules]
    /\ UNCHANGED rule_files

(***************************************************************************)
(* ModelUpdater (src/models/model_updater.py)                              *)
(*                                                                         *)
(* The preprocessor, the vectorizer, the models and the metric functions   *)
(* are collaborators: each call either returns or raises.                  *)
(***************************************************************************)
MaxRecords == 4
MaxNew     == 2
MaxGen     == 2

\* self.models, in insertion order (_load_models)
ModelNames == << "isolation_forest", "local_outlier_factor", "elliptic_envelope",
                 "one_class_svm", "ensemble" >>
ModelSet == Range(ModelNames)

\* metrics are percentages
MuConfigs ==
    { [min_samples |-> 2, update_interval |-> ui, max_samples |-> 3,
       performance_threshold |-> 80] : ui \in {0, 2} }

Metrics == << "precision", "recall", "f1", "auc" >>

\* one model's metrics, all equal
Perf(p) == [precision |-> p, recall |-> p, f1 |-> p, auc |-> p]

\* every model at 0.9
PerfGood == [m \in ModelSet |-> Perf(90)]

\* the first table of test_should_retrain: average 0.73
PerfDegraded ==
    [m \in ModelSet |->
        CASE m = "isolation_forest"     -> [Perf(70) EXCEPT !.f1 = 50]
          [] m = "local_outlier_factor" -> Perf(90)
          [] m = "elliptic_envelope"    -> Perf(70)
          [] m = "one_class_svm"        -> Perf(60)
          [] m = "ensemble"             -> Perf(80)]

\* average exactly 0.8
PerfAtThreshold ==
    [m \in ModelSet |-> [precision |-> 90, recall |-> 90, f1 |-> 70, auc |-> 70]]

\* one model far below the threshold, average 0.82
PerfOneModelLow ==
    [m \in ModelSet |-> IF m = "one_class_svm" THEN Perf(50) ELSE Perf(90)]

\* what _evaluate_performance measures in one evaluation: per model, the
\* four metrics
PerfSamples == { PerfGood, PerfDegraded, PerfAtThreshold, PerfOneModelLow }

\* the recorded performance of a call that evaluated nothing
NoPerformance == [m \in ModelSet |-> Perf(0)]

\* where a collaborator raises during one update call (at: index of the model)
Failures ==
    { [step |-> s, at |-> 0] : s \in {"none", "prepare", "evaluate"} }
      \cup { [step |-> s, at |-> i] : s \in {"update", "retrain", "save"},
                                       i \in 1..Len(ModelNames) }

Index(m) == CHOOSE i \in 1..Len(ModelNames) : ModelNames[i] = m

\* for name, model in self.models.items(): model.fit(vectors) / partial_fit(vectors)
\* stop = 0: the loop completes; stop = i: the call on model i raises
fit_models(gens, stop) ==
    [m \in ModelSet |-> IF stop = 0 \/ Index(m) < stop THEN gens[m] + 1 ELSE gens[m]]

\* _save_models: model.save(...) in the same order
save_models(gens, saved, stop) ==
    [m \in ModelSet |-> IF stop = 0 \/ Index(m) < stop THEN gens[m] ELSE saved[m]]

\* Len(ModelNames) * np.mean([p[metric] for p in performance.values()])
metric_sum(performance, metric) ==
    SeqSum([i \in 1..Len(ModelNames) |-> performance[ModelNames[i]][metric]])

\* Len(Metrics) * Len(ModelNames) * avg_performance
avg_performance_sum(performance) ==
    SeqSum([j \in 1..Len(Metrics) |-> metric_sum(performance, Metrics[j])])

\* variant: avg_performance <= self.performance_threshold
should_retrain_inclusive(performance, cfg) ==
    avg_performance_sum(performance)
        <= Len(Metrics) * Len(ModelNames) * cfg.performance_threshold

\* _should_retrain: np.mean of the four metric means < performance_threshold
should_retrain(performance, cfg) ==
    avg_performance_sum(performance)
        < Len(Metrics) * Len(ModelNames) * cfg.performance_threshold

\* variant: either condition starts a cycle
update_due_either(buffer, cfg, time_since_update) ==
    Len(buffer) >= cfg.min_samples \/ time_since_update >= cfg.update_interval

\* the condition of update() under which a cycle runs
update_due(buffer, cfg, time_since_update) ==
    Len(buffer) >= cfg.min_samples /\ time_since_update >= cfg.update_interval

StopAt(fail, step) == IF fail.step = step THEN fail.at ELSE 0

\* variant: the models are written when a step of the cycle raised
save_skipped_flush(gens, saved) == gens

\* update() has no try: an exception of _prepare_data, _update_models,
\* _evaluate_performance or _retrain_models leaves it before _save_models
save_skipped(gens, saved) == saved

\* the body of the if in update(): the state when the call returns or raises
run_cycle(cfg, gens, saved, ph, lu, current_time, performance, fail) ==
    LET unchanged == [models |-> gens, saved_models |-> saved,
                      performance_history |-> ph, last_update |-> lu]
        gens1   == fit_models(gens, StopAt(fail, "update"))
        retrain == should_retrain(performance, cfg)
        gens2   == IF retrain THEN fit_models(gens1, StopAt(fail, "retrain")) ELSE gens1
        saved1  == save_models(gens2, saved, StopAt(fail, "save"))
    IN CASE fail.step = "prepare" ->
              [unchanged EXCEPT !.saved_models = save_skipped(gens, saved)] @@
              [raised |-> TRUE, steps |-> <<"prepare">>]
         [] fail.step = "update" ->
              [unchanged EXCEPT !.models = gens1,
                                !.saved_models = save_skipped(gens1, saved)] @@
              [raised |-> TRUE, steps |-> <<"prepare", "update">>]
         [] fail.step = "evaluate" ->
              [unchanged EXCEPT !.models = gens1,
                                !.saved_models = save_skipped(gens1, saved)] @@
              [raised |-> TRUE, steps |-> <<"prepare", "update", "evaluate">>]
         [] fail.step = "retrain" ->
              [unchanged EXCEPT !.models = gens2, !.performance_history = ph + 1,
                                !.saved_models = save_skipped(gens2, saved)] @@
              [raised |-> TRUE, steps |-> <<"prepare", "update", "evaluate", "retrain">>]
         [] fail.step \in {"save", "none"} ->
              [models |-> gens2, saved_models |-> saved1,
               performance_history |-> ph + 1, last_update |-> current_time,
               raised |-> fail.step = "save",
               steps |-> <<"prepare", "update", "evaluate">>
                           \o (IF retrain THEN <<"retrain">> ELSE <<>>)
                           \o <<"stamp", "save">>]

Snapshot == [data_buffer |-> data_buffer, last_update |-> last_update, models |-> models,
             saved_models |-> saved_models, performance_history |-> performance_history]

MuInit(cfgs) ==
    /\ mu_cfg \in cfgs
    /\ data_buffer = <<>>
    /\ last_update = now
    /\ models = [m \in ModelSet |-> 0]
    /\ saved_models = [m \in ModelSet |-> 0]
    /\ performance_history = 0
    /\ mu_next_id = 1
    /\ mu_last = [called |-> FALSE, time |-> now, pre |-> Snapshot, new_data |-> <<>>,
                  due |-> FALSE,
                  raised |-> FALSE, steps |-> <<>>, fail |-> "none",
                  performance |-> NoPerformance]

ModelUpdater_update ==
    \E n \in 0..MaxNew, fail \in Failures, performance \in PerfSamples :
      LET new_data == [i \in 1..n |-> mu_next_id + i - 1]
          buffer == KeepLast(data_buffer \o new_data, mu_cfg.max_samples)
          current_time == now
          time_since_update == current_time - last_update
          due == update_due(buffer, mu_cfg, time_since_update)
          r == run_cycle(mu_cfg, models, saved_models, performance_history,
                         last_update, current_time, performance, fail)
      IN /\ mu_next_id + n <= MaxRecords + 1
         /\ ~due => (fail.step = "none" /\ performance = PerfGood)
         /\ fail.step \in {"prepare", "update", "evaluate"} => performance = PerfGood
         /\ due => models[ModelNames[1]] < MaxGen
         /\ fail.step = "retrain" => should_retrain(performance, mu_cfg)
         /\ data_buffer' = buffer
         /\ mu_next_id' = mu_next_id + n
         /\ IF due
            THEN /\ models' = r.models
                 /\ saved_models' = r.saved_models
                 /\ performance_history' = r.performance_history
                 /\ last_update' = r.last_update
            ELSE UNCHANGED <<models, saved_models, performance_history, last_update>>
         /\ mu_last' = [called |-> TRUE, time |-> current_time, pre |-> Snapshot,
                        new_data |-> new_data,
                        due |-> due,
                        raised |-> due /\ r.raised,
                        steps |-> IF due THEN r.steps ELSE <<>>,
                        fail |-> IF due THEN fail.step ELSE "none",
                        performance |->
                            IF due /\ fail.step \notin {"prepare", "update", "evaluate"}
                            THEN performance ELSE NoPerformance]
         /\ UNCHANGED mu_cfg

(***************************************************************************)
(* ScoreCombiner (src/models/score_combiner.py)                            *)
(***************************************************************************)
\* the keys of SCORE_OPERATIONS (src/config/model_config.py)
SCORE_OPERATIONS == { "mean", "max", "min", "weighted_mean" }

OperationNames == SCORE_OPERATIONS \cup { "invalid_operation" }

\* the models of the score maps, in the order of sample_scores
ScModels == << "model1", "model2", "model3" >>

\* sample_scores, in tenths: one array per model
sample_scores ==
    [m \in Range(ScModels) |->
        CASE m = "model1" -> <<1, 5, 9>>
          [] m = "model2" -> <<2, 6, 8>>
          [] m = "model3" -> <<3, 4, 7>>]

\* a dict is a function on its key set
Restrict(f, S) == [x \in S |-> f[x]]
EmptyMap == Restrict(sample_scores, {})

\* the score maps handed to combine_scores: {} and sample_scores over every
\* set of models
ScoreMaps == { Restrict(sample_scores, S) : S \in SUBSET Range(ScModels) }

\* sample_weights in tenths; model3's weight missing; equal weights; a
\* model with weight 0; all weights 0
sample_weights == [m \in Range(ScModels) |->
                     CASE m = "model1" -> 5 [] m = "model2" -> 3 [] m = "model3" -> 2]
WeightMaps ==
    { EmptyMap,
      sample_weights,
      Restrict(sample_weights, {"model1", "model2"}),
      [m \in Range(ScModels) |-> 3],
      [m \in Range(ScModels) |-> IF m = "model1" THEN 0 ELSE 5],
      [m \in Range(ScModels) |-> 0] }

\* sum over the models of a map
MapSum(f) ==
    SeqSum([i \in 1..Len(ScModels) |->
              IF ScModels[i] \in DOMAIN f THEN f[ScModels[i]] ELSE 0])

\* the arrays of one call have one length
ArrayLen(scores) == Len(scores[CHOOSE m \in DOMAIN scores : TRUE])
Column(scores, j) == [m \in DOMAIN scores |-> scores[m][j]]
Values(f) == { f[x] : x \in DOMAIN f }

SetMax(S) == CHOOSE x \in S : \A y \in S : y <= x
SetMin(S) == CHOOSE x \in S : \A y \in S : x <= y

\* results are arrays of fractions <<numerator, denominator>>
NoValue == << >>

\* set(scores.keys()) - set(self.weights.keys())
missing_weights(scores, w) == DOMAIN scores \ DOMAIN w

\* variant: weights that sum to zero divide all the same
average_unchecked(scores, w) ==
    [raised |-> FALSE,
     ret |-> [j \in 1..ArrayLen(scores) |->
                << MapSum([m \in DOMAIN scores |-> w[m] * scores[m][j]]),
                   MapSum([m \in DOMAIN scores |-> w[m]]) >>]]

\* np.average(score_arrays, axis=0, weights=weights): ZeroDivisionError when
\* the weights sum to zero
average(scores, w) ==
    LET scl == MapSum([m \in DOMAIN scores |-> w[m]])
    IN IF scl = 0
       THEN [raised |-> TRUE, ret |-> NoValue]
       ELSE [raised |-> FALSE,
             ret |-> [j \in 1..ArrayLen(scores) |->
                        << MapSum([m \in DOMAIN scores |-> w[m] * scores[m][j]]), scl >>]]

\* the branches of combine_scores on self.operation (lines 48-71)
combine(op, w, scores) ==
    CASE op = "mean" ->
           [raised |-> FALSE,
            ret |-> [j \in 1..ArrayLen(scores) |->
                       << MapSum(Column(scores, j)), Cardinality(DOMAIN scores) >>]]
      [] op = "max" ->
           [raised |-> FALSE,
            ret |-> [j \in 1..ArrayLen(scores) |->
                       << SetMax(Values(Column(scores, j))), 1 >>]]
      [] op = "min" ->
           [raised |-> FALSE,
            ret |-> [j \in 1..ArrayLen(scores) |->
                       << SetMin(Values(Column(scores, j))), 1 >>]]
      [] op = "weighted_mean" ->
           IF w = EmptyMap
           THEN \* np.ones(len(scores)) / len(scores)
                [raised |-> FALSE,
                 ret |-> [j \in 1..ArrayLen(scores) |->
                            << MapSum(Column(scores, j)), Cardinality(DOMAIN scores) >>]]
           ELSE IF missing_weights(scores, w) # {}
                THEN [raised |-> TRUE, ret |-> NoValue]
                ELSE \* np.array([self.weights[model] for model in scores])
                     average(scores, Restrict(w, DOMAIN scores))
      [] OTHER -> [raised |-> TRUE, ret |-> NoValue]

\* variant: an empty score map goes to the operation
combine_scores_unchecked(op, w, scores) ==
    IF scores = EmptyMap THEN [raised |-> FALSE, ret |-> NoValue]
    ELSE [raised |-> rethrow(combine(op, w, scores).raised),
          ret |-> combine(op, w, scores).ret]

\* combine_scores: 'if not scores: raise', then the operation; the handler
\* logs and raises again
combine_scores(op, w, scores) ==
    IF scores = EmptyMap THEN [raised |-> rethrow(TRUE), ret |-> NoValue]
    ELSE [raised |-> rethrow(combine(op, w, scores).raised),
          ret |-> combine(op, w, scores).ret]

\* _validate_operation raises
invalid(op) == op \notin SCORE_OPERATIONS

NoCombinerCall == [op |-> "construct", arg |-> "", scores |-> EmptyMap,
                   pre |-> "", raised |-> FALSE, ret |-> NoValue]

ScInit(ops, ws) ==
    /\ operation \in ops
    /\ weights \in ws
    /\ sc_last = NoCombinerCall

\* combiner = ScoreCombiner(operation, weights): when __init__ raises, the
\* name keeps the combiner it had
ScoreCombiner_init ==
    \E op \in OperationNames, w \in WeightMaps :
      /\ IF invalid(op)
         THEN UNCHANGED <<operation, weights>>
         ELSE operation' = op /\ weights' = w
      /\ sc_last' = [NoCombinerCall EXCEPT !.op = "init", !.arg = op,
                                           !.pre = operation, !.raised = invalid(op)]

ScoreCombiner_set_operation ==
    \E op \in OperationNames :
      /\ operation' = op
      /\ sc_last' = [NoCombinerCall EXCEPT !.op = "set_operation", !.arg = op,
                                           !.pre = operation, !.raised = invalid(op)]
      /\ UNCHANGED weights

ScoreCombiner_set_weights ==
    \E w \in WeightMaps :
      /\ weights' = w
      /\ sc_last' = [NoCombinerCall EXCEPT !.op = "set_weights", !.pre = operation]
      /\ UNCHANGED operation

\* get_operation_info: SCORE_OPERATIONS[self.operation]
ScoreCombiner_get_operation_info ==
    /\ sc_last' = [NoCombinerCall EXCEPT !.op = "get_operation_info", !.pre = operation,
                                         !.raised = invalid(operation)]
    /\ UNCHANGED <<operation, weights>>

ScoreCombiner_combine_scores ==
    \E scores \in ScoreMaps :
      LET r == combine_scores(operation, weights, scores)
      IN /\ sc_last' = [NoCombinerCall EXCEPT !.op = "combine_scores", !.scores = scores,
                                              !.pre = operation, !.raised = r.raised,
                                              !.ret = r.ret]
         /\ UNCHANGED <<operation, weights>>

(***************************************************************************)
(* The monitoring loop (scripts/detect_anomalies.py)                       *)
(***************************************************************************)
\* One iteration of the loop of monitor_logs for one new log, with the
\* real-time detector and without a rules file: process_logs feeds the score
\* to the detector and collects every result that is not None (lines
\* 146-153); when the frame of the results is not empty, monitor_logs hands
\* it to check_anomalies (lines 277 and 292).
monitor_logs ==
    /\ RealTimeDetector_update
    /\ IF rt_last'.returned
       THEN AlertManager_check_anomalies /\ am_last'.batch = 1
       ELSE UNCHANGED am_vars

(***************************************************************************)
(* Specifications: one per component                                       *)
(***************************************************************************)
VcIdle == VcInit({2}, {MissingFile})
AmIdle == AmInit({[threshold |-> 2, window |-> 2, notification_manager |-> FALSE,
                   notification_type |-> "email"]})
RtIdle == RtInit({[window_size |-> 5, min_anomaly_ratio |-> <<1, 5>>,
                   adaptive_threshold |-> FALSE]})
RbIdle == RbInit({FileMissing})
ScIdle == ScInit({"mean"}, {EmptyMap})
MuIdle == MuInit({[min_samples |-> 2, update_interval |-> 2, max_samples |-> 3,
                   performance_threshold |-> 80]})

InitCache == now = 0 /\ VcInit(CacheSizes, PersistedRecords)
                     /\ AmIdle /\ RtIdle /\ RbIdle /\ MuIdle /\ ScIdle
NextCache ==
    \/ Tick /\ UNCHANGED <<vc_vars, am_vars, rt_vars, rb_vars, mu_vars, sc_vars>>
    \/ VectorCache_init  /\ UNCHANGED <<now, am_vars, rt_vars, rb_vars, mu_vars, sc_vars>>
    \/ VectorCache_get   /\ UNCHANGED <<now, am_vars, rt_vars, rb_vars, mu_vars, sc_vars>>
    \/ VectorCache_put   /\ UNCHANGED <<now, am_vars, rt_vars, rb_vars, mu_vars, sc_vars>>
    \/ VectorCache_clear /\ UNCHANGED <<now, am_vars, rt_vars, rb_vars, mu_vars, sc_vars>>
SpecCache == InitCache /\ [][NextCache]_vars

\* an instance constructed over an empty directory and used by put, get and
\* clear alone
InitFreshCache == now = 0 /\ VcInit(CacheSizes, {MissingFile})
                          /\ AmIdle /\ RtIdle /\ RbIdle /\ MuIdle /\ ScIdle
NextFreshCache ==
    \/ Tick /\ UNCHANGED <<vc_vars, am_vars, rt_vars, rb_vars, mu_vars, sc_vars>>
    \/ VectorCache_get   /\ UNCHANGED <<now, am_vars, rt_vars, rb_vars, mu_vars, sc_vars>>
    \/ VectorCache_put   /\ UNCHANGED <<now, am_vars, rt_vars, rb_vars, mu_vars, sc_vars>>
    \/ VectorCache_clear /\ UNCHANGED <<now, am_vars, rt_vars, rb_vars, mu_vars, sc_vars>>
SpecFreshCache == InitFreshCache /\ [][NextFreshCache]_vars

\* two contexts on one instance, constructed over an empty directory or over
\* a record an earlier instance saved (one entry, or one per key)
SavedRecords == { MissingFile, SavedState({get_hash(EarlierTokens)}), SavedState(Keys) }

InitContexts == now = 0 /\ VcInit(CacheSizes, SavedRecords)
                        /\ AmIdle /\ RtIdle /\ RbIdle /\ MuIdle /\ ScIdle
StepOf(c) ==
    \/ get_check(c)
    \/ get_touch(c)
    \/ get_return(c)
    \/ put_store(c)
    \/ put_touch(c)
    \/ put_check(c)
    \/ cleanup_expired(c)
    \/ cleanup_del_cache(c)
    \/ cleanup_del_time(c)
    \/ cleanup_size(c)
    \/ cleanup_save(c)
NextContexts ==
    \/ cc_last = NoContextCall /\ Quiescent /\ Tick
         /\ UNCHANGED <<vc_vars, am_vars, rt_vars, rb_vars, mu_vars, sc_vars>>
    \/ \E c \in Contexts :
         StepOf(c) /\ UNCHANGED <<now, max_size, vc_last, vc_put,
                                  am_vars, rt_vars, rb_vars, mu_vars, sc_vars>>
SpecContexts == InitContexts /\ [][NextContexts]_vars

\* the detector and the alert manager in the monitoring loop
PipelineAlerts ==
    { [threshold |-> th, window |-> 2, notification_manager |-> FALSE,
       notification_type |-> "email"] : th \in {2, 3} }

PipelineDetectors ==
    { [window_size |-> 6, min_anomaly_ratio |-> <<1, 10>>, adaptive_threshold |-> FALSE],
      [window_size |-> 3, min_anomaly_ratio |-> <<1, 5>>,  adaptive_threshold |-> TRUE] }

InitPipeline == now = 0 /\ VcIdle /\ AmInit(PipelineAlerts) /\ RtInit(PipelineDetectors)
                        /\ RbIdle /\ MuIdle /\ ScIdle
NextPipeline ==
    \/ Tick /\ UNCHANGED <<vc_vars, am_vars, rt_vars, rb_vars, mu_vars, sc_vars>>
    \/ monitor_logs /\ UNCHANGED <<now, vc_vars, rb_vars, mu_vars, sc_vars>>
SpecPipeline == InitPipeline /\ [][NextPipeline]_vars

InitAlert == now = 0 /\ VcIdle /\ AmInit(AmConfigs) /\ RtIdle /\ RbIdle /\ MuIdle /\ ScIdle
NextAlert ==
    \/ Tick /\ UNCHANGED <<vc_vars, am_vars, rt_vars, rb_vars, mu_vars, sc_vars>>
    \/ AlertManager_check_anomalies
         /\ UNCHANGED <<now, vc_vars, rt_vars, rb_vars, mu_vars, sc_vars>>
SpecAlert == InitAlert /\ [][NextAlert]_vars

InitDetector == now = 0 /\ VcIdle /\ AmIdle /\ RtInit(RtConfigs) /\ RbIdle /\ MuIdle /\ ScIdle
NextDetector ==
    \/ RealTimeDetector_update /\ UNCHANGED <<now, vc_vars, am_vars, rb_vars, mu_vars, sc_vars>>
    \/ RealTimeDetector_reset  /\ UNCHANGED <<now, vc_vars, am_vars, rb_vars, mu_vars, sc_vars>>
SpecDetector == InitDetector /\ [][NextDetector]_vars

InitRules == now = 0 /\ VcIdle /\ AmIdle /\ RtIdle /\ RbInit(InitialRuleFiles) /\ MuIdle /\ ScIdle
NextRules ==
    \/ RuleBasedDetector_load_rules  /\ UNCHANGED <<now, vc_vars, am_vars, rt_vars, mu_vars, sc_vars>>
    \/ RuleBasedDetector_add_rule    /\ UNCHANGED <<now, vc_vars, am_vars, rt_vars, mu_vars, sc_vars>>
    \/ RuleBasedDetector_detect      /\ UNCHANGED <<now, vc_vars, am_vars, rt_vars, mu_vars, sc_vars>>
    \/ RuleBasedDetector_save_rules  /\ UNCHANGED <<now, vc_vars, am_vars, rt_vars, mu_vars, sc_vars>>
    \/ RuleBasedDetector_clear_rules /\ UNCHANGED <<now, vc_vars, am_vars, rt_vars, mu_vars, sc_vars>>
SpecRules == InitRules /\ [][NextRules]_vars

InitUpdater == now = 0 /\ VcIdle /\ AmIdle /\ RtIdle /\ RbIdle /\ MuInit(MuConfigs) /\ ScIdle
NextUpdater ==
    \/ Tick /\ UNCHANGED <<vc_vars, am_vars, rt_vars, rb_vars, mu_vars, sc_vars>>
    \/ ModelUpdater_update /\ UNCHANGED <<now, vc_vars, am_vars, rt_vars, rb_vars, sc_vars>>
SpecUpdater == InitUpdater /\ [][NextUpdater]_vars

InitCombiner == now = 0 /\ VcIdle /\ AmIdle /\ RtIdle /\ RbIdle /\ MuIdle
                        /\ ScInit(SCORE_OPERATIONS, WeightMaps)
NextCombiner ==
    \/ ScoreCombiner_init
         /\ UNCHANGED <<now, vc_vars, am_vars, rt_vars, rb_vars, mu_vars>>
    \/ ScoreCombiner_set_operation
         /\ UNCHANGED <<now, vc_vars, am_vars, rt_vars, rb_vars, mu_vars>>
    \/ ScoreCombiner_set_weights
         /\ UNCHANGED <<now, vc_vars, am_vars, rt_vars, rb_vars, mu_vars>>
    \/ ScoreCombiner_get_operation_info
         /\ UNCHANGED <<now, vc_vars, am_vars, rt_vars, rb_vars, mu_vars>>
    \/ ScoreCombiner_combine_scores
         /\ UNCHANGED <<now, vc_vars, am_vars, rt_vars, rb_vars, mu_vars>>
SpecCombiner == InitCombiner /\ [][NextCombiner]_vars

\* The cache, the alert manager and the rule detector, one of them exercised
\* per behaviour while the other two have not been called since construction
\* (the components share no state but the clock, so what holds of each
\* component here holds of it in the pipeline).
VcUncalled == VcIdle /\ vc_last.op = "construct"
AmUncalled == AmIdle
RbUncalled == RbIdle

\* Here the cache starts over an empty directory, an unparsable file or a
\* full record; as in SpecRules, the rule detector is exercised at one instant.
AbsorbingRecords == { MissingFile, MalformedFile, SavedState(Keys) }

InitAbsorbing ==
    \/ now = 0 /\ VcInit(CacheSizes, AbsorbingRecords)
               /\ AmIdle /\ RtIdle /\ RbIdle /\ MuIdle /\ ScIdle
    \/ InitAlert
    \/ InitRules
NextAbsorbing ==
    \/ AmUncalled /\ RbUncalled /\ NextCache
    \/ VcUncalled /\ RbUncalled /\ NextAlert
    \/ VcUncalled /\ AmUncalled /\ now = 0 /\ NextRules
SpecAbsorbing == InitAbsorbing /\ [][NextAbsorbing]_vars

Init == now = 0 /\ VcInit(CacheSizes, PersistedRecords) /\ AmInit(AmConfigs)
                /\ RtInit(RtConfigs) /\ RbInit(InitialRuleFiles) /\ MuInit(MuConfigs)
                /\ ScInit(SCORE_OPERATIONS, WeightMaps)
Next == NextCache \/ NextAlert \/ NextDetector \/ NextRules \/ NextUpdater
          \/ NextCombiner
Spec == Init /\ [][Next]_vars

(***************************************************************************)
(* Properties                                                              *)
(***************************************************************************)

\* C1: after any put returns the cache holds at most max_size entries,
\* whatever state the constructor loaded from the persisted record.
C1_PutBound ==
    (vc_last.op = "put" /\ vc_last.tokens # BadTokens) => len(cache) <= max_size

\* C2: when the history length after appending and pruning reaches the
\* threshold inside check_anomalies, the history is empty when the call
\* returns and the notification manager, if configured, was invoked exactly
\* once in that call (not at all when none is configured).
C2_FiringResets ==
    am_last.reached =>
        /\ anomaly_history = <<>>
        /\ am_last.invoked = (IF am_cfg.notification_manager THEN 1 ELSE 0)

C2_Fired == /\ am_last.reached
            /\ am_last.before > 0
            /\ am_cfg.notification_manager
            /\ am_last.invoked = 1

C4_RatioBound ==
    /\ stats.current_anomaly_ratio[2] > 0
    /\ 0 <= stats.current_anomaly_ratio[1]
    /\ stats.current_anomaly_ratio[1] <= stats.current_anomaly_ratio[2]
    /\ stats.total_anomalies <= stats.total_logs

C4_AnomalyCounted ==
    /\ rt_last.op = "update"
    /\ stats.total_anomalies >= 1
    /\ stats.total_logs > stats.total_anomalies

\* C5: an update that returns a result reports alert_triggered exactly when
\* the window holds window_size scores and the anomaly ratio after the event
\* is >= min_anomaly_ratio; it is never reported before window_size scores
\* were fed since construction or the last reset.
C5_AlertCondition ==
    (rt_last.op = "update" /\ rt_last.returned) =>
        /\ rt_last.alert_triggered <=>
              ( /\ Len(score_window) = rt_cfg.window_size
                /\ RatioGeq(stats.current_anomaly_ratio, rt_cfg.min_anomaly_ratio) )
        /\ rt_last.alert_triggered => rt_fed >= rt_cfg.window_size

C5_AlertRaised == rt_last.op = "update" /\ rt_last.returned /\ rt_last.alert_triggered

\* a fresh detector with window_size 5, min_anomaly_ratio 0.2, fixed mode,
\* fed 0.1, 0.1, 0.1, 0.1, 5.0
C6_Scenario ==
    /\ rt_cfg = [window_size |-> 5, min_anomaly_ratio |-> <<1, 5>>,
                 adaptive_threshold |-> FALSE]
    /\ rt_last.op = "update"
    /\ rt_fed = 5
    /\ score_window = <<1, 1, 1, 1, 50>>

\* C6 as stated: in the scenario the fifth event is classified anomalous and
\* the fifth update returns alert_triggered.
C6_FifthFlagged ==
    C6_Scenario => (rt_last.returned /\ rt_last.is_anomaly /\ rt_last.alert_triggered)

\* C6 amended: in the scenario the threshold of the fifth update is exactly
\* 5.0 (mean 1.08 + 2 * stddev 1.96), the fifth event is not classified
\* anomalous (5.0 > 5.0 is false), the ratio is 0/5 and alert_triggered is
\* false.
C6_FifthNotFlagged ==
    C6_Scenario =>
        /\ rt_last.returned
        /\ rt_last.threshold.kind = "fixed"
        /\ rt_last.threshold.den * 50 - rt_last.threshold.num > 0
        /\ (rt_last.threshold.den * 50 - rt_last.threshold.num)
             * (rt_last.threshold.den * 50 - rt_last.threshold.num)
             = 4 * rt_last.threshold.var
        /\ ~rt_last.is_anomaly
        /\ stats.current_anomaly_ratio = <<0, 5>>
        /\ ~rt_last.alert_triggered

\* C7: every rule of the active rule set has name, pattern and severity and
\* a primary pattern that compiles.
C7_ActiveRulesValid ==
    \A i \in 1..Len(rules) :
        /\ {"name", "pattern", "severity"} \subseteq DOMAIN rules[i]
        /\ compiles(rules[i].pattern)

ConditionsCompile(rule) ==
    "conditions" \in DOMAIN rule =>
        \A f \in DOMAIN rule.conditions : compiles(rule.conditions[f])

\* C8: add_rule does not raise; it leaves the rule set unchanged for a rule
\* that lacks name, pattern or severity, whose primary pattern does not
\* compile or that has a condition pattern that does not compile, and
\* appends every other rule.
C8_AddRuleValidates ==
    rb_last.op = "add_rule" =>
        /\ ~rb_last.raised
        /\ rules = IF /\ {"name", "pattern", "severity"} \subseteq DOMAIN rb_last.arg
                      /\ compiles(rb_last.arg.pattern)
                      /\ ConditionsCompile(rb_last.arg)
                   THEN Append(rb_last.before, rb_last.arg)
                   ELSE rb_last.before

\* C9: when persisting a model fails during an update cycle the error
\* reaches the caller, the buffered records are kept and last_update is not
\* advanced.
C9_SaveFailureKeepsStamp ==
    (mu_last.called /\ mu_last.fail = "save") =>
        /\ mu_last.raised
        /\ data_buffer = KeepLast(mu_last.pre.data_buffer \o mu_last.new_data,
                                  mu_cfg.max_samples)
        /\ last_update = mu_last.pre.last_update

\* C10: update appends the records to the buffer, runs a cycle exactly when
\* afterwards the buffer holds >= min_samples records and >= update_interval
\* has passed since last_update, and otherwise changes nothing but the
\* buffer.
C10_UpdateGate ==
    mu_last.called =>
        /\ data_buffer = KeepLast(mu_last.pre.data_buffer \o mu_last.new_data,
                                  mu_cfg.max_samples)
        /\ (mu_last.steps # <<>>) <=>
              ( /\ Len(data_buffer) >= mu_cfg.min_samples
                /\ mu_last.time - mu_last.pre.last_update >= mu_cfg.update_interval )
        /\ mu_last.steps = <<>> =>
              /\ models = mu_last.pre.models
              /\ saved_models = mu_last.pre.saved_models
              /\ performance_history = mu_last.pre.performance_history
              /\ last_update = mu_last.pre.last_update
              /\ ~mu_last.raised

C10_GateClosed ==
    /\ mu_last.called
    /\ mu_last.steps = <<>>
    /\ Len(mu_last.new_data) > 0
    /\ Len(data_buffer) >= mu_cfg.min_samples

\* C11 as stated: a get for a token sequence returns the vector of the last
\* put for that token sequence while its entry was not removed by a cleanup
\* or by clear, and absent when that token sequence was not put.
C11_GetReturnsPutOfTokens ==
    (vc_last.op = "get" /\ vc_last.tokens \in TokenLists) =>
        LET h == vc_put[join(vc_last.tokens)]
        IN \/ h.state = "unknown"
           \/ vc_last.ret = (IF h.tokens = vc_last.tokens THEN h.vector ELSE NoVec)

\* C11 amended: the entry is per joined text.  A get returns the vector of
\* the last put whose token sequence has the same space-joined text, while
\* that entry was not removed by a cleanup (TTL expiry, capacity eviction)
\* or by clear; it returns absent when no token sequence with that joined
\* text was put (and none came from the persisted record).
C11_GetReturnsPutOfText ==
    (vc_last.op = "get" /\ vc_last.tokens \in TokenLists) =>
        \/ vc_put[join(vc_last.tokens)].state = "unknown"
        \/ vc_last.ret = vc_put[join(vc_last.tokens)].vector

\* a get of <<"a b">> answered with the vector put for <<"a", "b">>
C11_HitThroughJoinedText ==
    /\ vc_last.op = "get"
    /\ vc_last.tokens = <<"a b">>
    /\ vc_last.ret = "v1"
    /\ vc_put["a b"] = Stored(<<"a", "b">>, "v1")

\* C12: the state survives a restart: after any put or get, a VectorCache
\* constructed over the same directory would hold the entries and the
\* last-access times this instance holds.
C12_RestartRestores ==
    vc_last.op \in {"put", "get"} =>
        /\ load_cache(disk).cache = cache
        /\ load_cache(disk).access_times = access_times

WellFormed(d) ==
    /\ d.kind = "document"
    /\ \A i \in 1..Len(d.access_times) : IsIso(d.access_times[i].t)

\* C13: constructing over a record that is missing, unreadable or malformed
\* in whole or in part yields an empty entry map and an empty access-time
\* map.
C13_CorruptLoadsEmpty ==
    (vc_last.op = "construct" /\ ~WellFormed(disk)) =>
        /\ cache = EmptyCache
        /\ access_times = <<>>

\* C14 as stated: check_anomalies with an empty batch leaves the history
\* length unchanged and does not fire.
C14_EmptyBatchKeepsLength ==
    (am_last.called /\ am_last.batch = 0) =>
        /\ Len(anomaly_history) = am_last.before
        /\ ~am_last.reached
        /\ am_last.invoked = 0

\* C14 amended: with threshold >= 1, check_anomalies with an empty batch
\* adds nothing and does not fire (the sink is not invoked); it still prunes,
\* so the history afterwards is exactly the entries of the history before
\* that are younger than the window, and its length never grows.
C14_EmptyBatchOnlyPrunes ==
    (am_last.called /\ am_last.batch = 0 /\ am_cfg.threshold >= 1) =>
        /\ anomaly_history =
              SelectSeq(am_last.pre,
                        LAMBDA a : a.timestamp > am_last.time - am_cfg.window)
        /\ Len(anomaly_history) <= am_last.before
        /\ ~am_last.reached
        /\ am_last.invoked = 0

\* an empty batch whose call dropped an entry that had left the window
C14_EmptyBatchPruned ==
    /\ am_last.called
    /\ am_last.batch = 0
    /\ am_cfg.threshold >= 1
    /\ Len(anomaly_history) < am_last.before

\* C15: no call to VectorCache.get, put or clear, to
\* AlertManager.check_anomalies or to RuleBasedDetector.detect, add_rule,
\* load_rules or save_rules raises, whatever the argument and whatever file
\* or notification failure occurs inside it; a failed get returns absent and
\* a failed detect returns no hit.
C15_NothingPropagates ==
    /\ ~vc_last.raised
    /\ ~am_last.raised
    /\ ~rb_last.raised
    /\ (vc_last.op = "get" /\ vc_last.failed) => vc_last.ret = NoVec
    /\ (rb_last.op = "detect" /\ rb_last.failed) => rb_last.hits = <<>>

\* an alert whose notification channel raised, absorbed by the call
C15_FailureAbsorbed ==
    /\ am_last.called
    /\ am_last.reached
    /\ am_last.failed
    /\ ~am_last.raised

\* the rule matches the record as C16 words it: every condition field exists
\* in the record with a value its pattern matches, and the primary pattern
\* matches the space-joined field values
Matches(rule, log_entry) ==
    /\ \A f \in DOMAIN conditions_of(rule) :
          /\ f \in Fields(log_entry)
          /\ compiles(rule.conditions[f])
          /\ search(rule.conditions[f], Value(log_entry, f))
    /\ "pattern" \in DOMAIN rule
    /\ compiles(rule.pattern)
    /\ search(rule.pattern, join_values(log_entry))

Named(rule) == "name" \in DOMAIN rule

\* C16: detect reports a rule for a record (a hit with the rule's name) if
\* and only if the rule matches the record.
C16_ReportedIffMatches ==
    (rb_last.op = "detect" /\ rb_last.entry \in LogEntries) =>
        \A i \in 1..Len(rules) :
            Named(rules[i]) =>
                ( (\E j \in 1..Len(rb_last.hits) :
                       rb_last.hits[j].rule_name = rules[i].name)
                  <=> Matches(rules[i], rb_last.entry) )

\* C17: detect returns one hit for each active rule that matches the record,
\* in rule-set order, each with that rule's name, severity and description.
C17_OneHitPerMatch ==
    (rb_last.op = "detect" /\ rb_last.entry \in LogEntries) =>
        LET matching == SelectSeq(rules, LAMBDA r : Matches(r, rb_last.entry))
        IN /\ Len(rb_last.hits) = Len(matching)
           /\ \A j \in 1..Len(matching) :
                 /\ Named(matching[j]) /\ "severity" \in DOMAIN matching[j]
                 /\ rb_last.hits[j].rule_name = matching[j].name
                 /\ rb_last.hits[j].severity = matching[j].severity
                 /\ rb_last.hits[j].description =
                       (IF "description" \in DOMAIN matching[j]
                        THEN matching[j].description ELSE "")

\* C18: an update that fails inside returns no result and does not count
\* the event: the window, total_logs and total_anomalies are what they were
\* before the call.
C18_FailedUpdateNotCounted ==
    [][ (rt_last'.op = "update" /\ ~rt_last'.returned) =>
            /\ score_window' = score_window
            /\ stats'.total_logs = stats.total_logs
            /\ stats'.total_anomalies = stats.total_anomalies ]_vars

\* N >= 1 equal scores were fed to a fresh or reset detector whose window
\* holds them all
EqualScoresFed ==
    /\ rt_last.op = "update"
    /\ rt_fed = Len(score_window)
    /\ \A i \in 1..Len(score_window) :
          score_window[i] = score_window[1] /\ score_window[i] # NonNumeric

C20_RingBuffer ==
    [][ rt_last'.op = "update" =>
            /\ score_window' =
                  (IF Len(score_window) < rt_cfg.window_size
                   THEN Append(score_window, rt_last'.score)
                   ELSE Append(Tail(score_window), rt_last'.score))
            /\ Len(score_window') <= rt_cfg.window_size
            /\ Len(score_window') = Min(rt_fed', rt_cfg.window_size) ]_vars

\* an update that dropped the oldest score of a full window
C20_Overflowed ==
    /\ rt_last.op = "update"
    /\ rt_fed > rt_cfg.window_size
    /\ Len(score_window) = rt_cfg.window_size
    /\ score_window[Len(score_window)] = rt_last.score

\* what update returns for the last of the scores w fed to a freshly
\* constructed detector of configuration cfg: none when a score of w has no
\* arithmetic, else the threshold (one per outcome of np.std) and the class
FreshResults(cfg, w) ==
    IF \E i \in 1..Len(w) : w[i] = NonNumeric
    THEN { [returned |-> FALSE, threshold |-> ThresholdZero, is_anomaly |-> FALSE] }
    ELSE { [returned |-> TRUE, threshold |-> th, is_anomaly |-> exceeds(w[Len(w)], th)] :
             th \in IF cfg.adaptive_threshold
                    THEN { calculate_adaptive_threshold(w, std) : std \in StdOutcomes(w) }
                    ELSE { fixed_threshold(w) } }

\* the anomalies a freshly constructed detector has counted after the scores w
FreshAnomalies(cfg, w) ==
    Cardinality({ i \in 1..Len(w) :
                    \A r \in FreshResults(cfg, SubSeq(w, 1, i)) : r.is_anomaly })

\* C21: after reset() the detector is in the state of a freshly constructed
\* one with the same configuration (empty window, every statistic zero), and
\* the updates that follow return what they return on the fresh detector:
\* while the window holds every score fed since the reset, the result and
\* the counters are those of a fresh detector fed the same scores.
C21_ResetIsFresh ==
    /\ rt_last.op = "reset" =>
          /\ score_window = <<>>
          /\ stats = reset_stats
          /\ rt_cfg \in RtConfigs
    /\ (rt_was_reset /\ rt_last.op = "update" /\ rt_fed = Len(score_window)) =>
          /\ [returned |-> rt_last.returned, threshold |-> rt_last.threshold,
              is_anomaly |-> rt_last.is_anomaly]
                \in FreshResults(rt_cfg, score_window)
          /\ stats.total_logs = rt_fed
          /\ stats.total_anomalies = FreshAnomalies(rt_cfg, score_window)

\* an anomaly reported by a detector that was reset after it had counted
\* other events
C21_AnomalyAfterReset ==
    /\ rt_was_reset
    /\ rt_last.op = "update"
    /\ rt_last.is_anomaly
    /\ rt_fed = Len(score_window)
    /\ rt_fed < rt_cfg.window_size

\* the last update call ran a cycle whose evaluation completed
Evaluated ==
    /\ mu_last.called
    /\ mu_last.due
    /\ mu_last.fail \notin {"prepare", "update", "evaluate"}

\* 20 * (the mean over the four metrics of the cross-model mean), written out
\* for the five managed models
MeanOfMetricMeans20(p) ==
    LET mean5(metric) == p["isolation_forest"][metric] + p["local_outlier_factor"][metric]
                           + p["elliptic_envelope"][metric] + p["one_class_svm"][metric]
                           + p["ensemble"][metric]
    IN mean5("precision") + mean5("recall") + mean5("f1") + mean5("auc")

\* C22: the retrain decision is true exactly when the mean over precision,
\* recall, f1 and auc of the cross-model mean of the metric is strictly
\* below performance_threshold, and a cycle refits every model exactly when
\* the decision is true.
C22_RetrainIffDegraded ==
    Evaluated =>
        LET degraded == MeanOfMetricMeans20(mu_last.performance)
                          < 20 * mu_cfg.performance_threshold
            retrained == \E i \in 1..Len(mu_last.steps) : mu_last.steps[i] = "retrain"
        IN /\ retrained <=> degraded
           /\ (retrained /\ ~mu_last.raised) =>
                 \A m \in ModelSet : models[m] = mu_last.pre.models[m] + 2
           /\ (~retrained /\ ~mu_last.raised) =>
                 \A m \in ModelSet : models[m] = mu_last.pre.models[m] + 1

\* a cycle that retrained, and one that did not at an average equal to the
\* threshold
C22_Retrained ==
    /\ Evaluated /\ ~mu_last.raised
    /\ mu_last.performance = PerfDegraded
    /\ \A m \in ModelSet : models[m] = mu_last.pre.models[m] + 2

\* C23: an unsupported operation name is never accepted: the current
\* operation is always one of mean, max, min, weighted_mean, and after a
\* rejected set_operation the combiner holds the operation it had before.
C23_OperationAlwaysSupported ==
    /\ operation \in {"mean", "max", "min", "weighted_mean"}
    /\ (sc_last.op \in {"init", "set_operation"}
          /\ sc_last.arg \notin {"mean", "max", "min", "weighted_mean"}) =>
            /\ sc_last.raised
            /\ operation = sc_last.pre

\* the last call combined a non-empty score map in weighted_mean mode
WeightedCall ==
    /\ sc_last.op = "combine_scores"
    /\ sc_last.pre = "weighted_mean"
    /\ sc_last.scores # EmptyMap

\* the plain mean of the scores of the last call, per position
PlainMean(j) ==
    << MapSum([m \in DOMAIN sc_last.scores |-> sc_last.scores[m][j]]),
       Cardinality(DOMAIN sc_last.scores) >>

SameFraction(a, b) == a[1] * b[2] = b[1] * a[2]

EqualsPlainMean ==
    /\ Len(sc_last.ret) = 3
    /\ \A j \in 1..3 : sc_last.ret[j][2] # 0 /\ SameFraction(sc_last.ret[j], PlainMean(j))

\* C24 as stated: in weighted_mean mode a value is returned when the weight
\* map is empty or has a weight for every scored model, and an error is
\* raised when it is non-empty and a scored model has no weight; with an
\* empty weight map or equal weights the value is the plain mean.
C24_WeightsAllOrNothing ==
    WeightedCall =>
        LET complete == DOMAIN sc_last.scores \subseteq DOMAIN weights
            equal == complete /\ \A m1, m2 \in DOMAIN sc_last.scores :
                                    weights[m1] = weights[m2]
        IN /\ (weights = EmptyMap \/ complete) => ~sc_last.raised
           /\ (weights # EmptyMap /\ ~complete) => sc_last.raised
           /\ (weights = EmptyMap \/ equal) => EqualsPlainMean

\* C24 amended: in weighted_mean mode a value is returned when the weight
\* map is empty, or has a weight for every scored model and these weights
\* do not sum to zero; an error is raised when the weight map is non-empty
\* and a scored model has no weight or the weights of the scored models sum
\* to zero; with an empty weight map or equal non-zero weights the value is
\* the plain mean.
C24_WeightsAllOrNothingNonZero ==
    WeightedCall =>
        LET complete == DOMAIN sc_last.scores \subseteq DOMAIN weights
            zero_sum == complete /\ weights # EmptyMap
                          /\ MapSum(Restrict(weights, DOMAIN sc_last.scores)) = 0
            equal == complete /\ \A m1, m2 \in DOMAIN sc_last.scores :
                                    weights[m1] = weights[m2]
        IN /\ (weights = EmptyMap \/ (complete /\ ~zero_sum)) =>
                 (~sc_last.raised /\ Len(sc_last.ret) = 3)
           /\ (weights # EmptyMap /\ (~complete \/ zero_sum)) =>
                 (sc_last.raised /\ sc_last.ret = NoValue)
           /\ (weights = EmptyMap \/ (equal /\ ~zero_sum)) => EqualsPlainMean

\* three models combined with equal non-zero weights
C24_EqualWeightsCombined ==
    /\ WeightedCall
    /\ weights = [m \in {"model1", "model2", "model3"} |-> 3]
    /\ DOMAIN sc_last.scores = {"model1", "model2", "model3"}
    /\ ~sc_last.raised
    /\ sc_last.ret = << <<18, 9>>, <<45, 9>>, <<72, 9>> >>

\* C28: combine_scores on an empty score map raises and returns no value,
\* whatever the operation and the weights.
C28_EmptyScoresRaise ==
    (sc_last.op = "combine_scores" /\ sc_last.scores = EmptyMap) =>
        (sc_last.raised /\ sc_last.ret = NoValue)

\* an empty score map given to a weighted_mean combiner with weights
C28_EmptyScoresWeighted ==
    /\ sc_last.op = "combine_scores"
    /\ sc_last.scores = EmptyMap
    /\ operation = "weighted_mean"
    /\ weights # EmptyMap
    /\ sc_last.raised

\* C25: the rule set file round-trips: a save that follows a load of a rule
\* set file writes a document whose rules list is the one of the loaded
\* file (same rules, same order, same fields), and a load that follows a
\* save to the same file restores the rule set that was active.
C25_RoundTrip ==
    [][ /\ ( /\ rb_last.op = "load_rules"
              /\ rule_files[rb_last.path].kind = "document"
              /\ rb_last'.op = "save_rules" /\ ~rb_last'.failed ) =>
                /\ rule_files'[rb_last'.path].kind = "document"
                /\ rule_files'[rb_last'.path].rules = rule_files[rb_last.path].rules
        /\ ( /\ rb_last.op = "save_rules" /\ ~rb_last.failed
              /\ rb_last'.op = "load_rules" /\ rb_last'.path = rb_last.path ) =>
                rules' = rules ]_vars

\* a rule with a description and conditions, added by add_rule, then saved
\* to out.json and loaded from it
C25_SavedAndLoaded ==
    /\ rb_last.op = "load_rules"
    /\ rb_last.path = "out.json"
    /\ rule_files["out.json"].kind = "document"
    /\ rule_files["rules.json"].kind = "missing"
    /\ rules = << [name |-> "Detect SQLi", pattern |-> "union.+select",
                   severity |-> "high", description |-> "SQL injection pattern",
                   conditions |-> [uri |-> "/login"]] >>

\* C26: the buffer holds at most max_samples records, the most recently
\* appended ones in arrival order (records are numbered as they arrive);
\* nothing but overflow removes a record, whether cycles ran or failed.
C26_BufferHoldsMostRecent ==
    LET appended == mu_next_id - 1
        held == IF appended < mu_cfg.max_samples THEN appended ELSE mu_cfg.max_samples
    IN /\ Len(data_buffer) <= mu_cfg.max_samples
       /\ Len(data_buffer) = held
       /\ \A i \in 1..held : data_buffer[i] = appended - held + i

\* the buffer overflowed and the call that made it overflow ran a cycle,
\* which failed
C26_OverflowedInFailedCycle ==
    /\ mu_next_id - 1 > mu_cfg.max_samples
    /\ mu_last.called /\ mu_last.due /\ mu_last.raised
    /\ Len(mu_last.new_data) > Len(data_buffer) - Len(mu_last.pre.data_buffer)
    /\ Len(data_buffer) = mu_cfg.max_samples

\* what an instance constructed now over the directory would hold
Restarted == load_cache(disk)

\* C27 as stated: after clear() returns, both maps are empty (so get finds
\* no key), the persisted record is empty, and an instance constructed over
\* the directory is empty.
C27_ClearEmptiesAll ==
    vc_last.op = "clear" =>
        /\ cache = EmptyCache /\ access_times = <<>>
        /\ disk = Document(EmptyCache, <<>>)
        /\ Restarted.cache = EmptyCache /\ Restarted.access_times = <<>>

\* C27 amended: after clear() returns, both maps are empty (so get finds no
\* key); when the write of the record succeeded, the persisted record is
\* empty and an instance constructed over the directory is empty; when the
\* write failed, the failure was absorbed and the directory holds what it
\* held before or an unparsable file.
C27_ClearEmptiesMemory ==
    [][ vc_last'.op = "clear" =>
          /\ cache' = EmptyCache /\ access_times' = <<>>
          /\ ~vc_last'.raised
          /\ ~vc_last'.failed =>
                /\ disk' = Document(EmptyCache, <<>>)
                /\ load_cache(disk').cache = EmptyCache
                /\ load_cache(disk').access_times = <<>>
          /\ vc_last'.failed => (disk' = disk \/ disk' = MalformedFile) ]_vars

\* a clear of a cache that held entries, written to the directory
C27_ClearedAndSaved ==
    /\ vc_last.op = "clear"
    /\ vc_last.before >= 2
    /\ ~vc_last.failed
    /\ disk = Document(EmptyCache, <<>>)

\* C29: a put that leaves the cache at or above max_size runs the cleanup:
\* every entry whose last access is older than the TTL is removed; only if
\* more than max_size entries remain, entries are removed until max_size
\* are left, and none of them while an entry with a strictly older last
\* access stays; a put that leaves the cache below max_size removes nothing.
C29_CleanupOrder ==
    [][ (now' = now /\ vc_last'.op = "put" /\ vc_last'.tokens \in TokenLists) =>
          LET key     == get_hash(vc_last'.tokens)
              held    == CacheKeys(cache) \cup {key}
              timed   == AtKeys(access_times) \cup {key}
              T(k)    == IF k = key THEN now ELSE AtGet(access_times, k)
              expired == { k \in held \cap timed : now - T(k) > ttl }
              removed == held \ CacheKeys(cache')
          IN IF Cardinality(held) >= max_size
             THEN /\ expired \subseteq removed
                  /\ IF Cardinality(held \ expired) > max_size
                     THEN len(cache') = max_size
                     ELSE removed = expired
                  /\ \A k \in (removed \ expired) \cap timed :
                        \A k2 \in CacheKeys(cache') \cap timed : ~(T(k2) < T(k))
             ELSE removed = {} ]_vars

\* an update of a detector in fixed threshold mode that returned a result
FixedModeResult ==
    /\ ~rt_cfg.adaptive_threshold
    /\ rt_last.op = "update"
    /\ rt_last.returned

C31_SameKeys == CacheKeys(cache) = AtKeys(access_times)

\* a put whose cleanup evicted an entry, the cache still holding one
C31_Evicted ==
    /\ vc_last.op = "put"
    /\ \E x \in Texts : vc_put[x].state = "unknown"
    /\ len(cache) >= 1

\* a put has returned and no call is in progress
PutReturned == Quiescent /\ cc_last.op = "put"

\* C32: the calls of the two contexts are serialized: when no call is in
\* progress, no key is in one of the two maps and not in the other, a get
\* that returned absent did so for a key that is not in the cache, and after
\* a put returned the cache holds at most max_size entries.
C32_Serialized ==
    /\ Quiescent => CacheKeys(cache) = AtKeys(access_times)
    /\ (Quiescent /\ cc_last.op = "get" /\ cc_last.ret = NoVec)
          => cache[get_hash(cc_last.tokens)] = NoVec
    /\ PutReturned => len(cache) <= max_size

\* the steps of a cycle, with and without the refit
CycleSteps(retrain) ==
    <<"prepare", "update", "evaluate">> \o (IF retrain THEN <<"retrain">> ELSE <<>>)
        \o <<"stamp", "save">>

\* C33: the steps of a cycle run in the order incremental update,
\* evaluation, refit only if the evaluation found the models degraded,
\* persistence, and the call returns; a step that raises ends the cycle.
\* Models are written only in a cycle where the update, the evaluation and
\* the refit completed for every model: a model is written with the state
\* all the fits of the cycle gave it, and in a cycle where a fit or the
\* evaluation raised no model is written.
C33_PersistAfterAll ==
    (mu_last.called /\ mu_last.due) =>
        LET retrain == Evaluated /\ should_retrain(mu_last.performance, mu_cfg)
            full    == CycleSteps(retrain)
            fits    == IF retrain THEN 2 ELSE 1
        IN /\ Len(mu_last.steps) <= Len(full)
           /\ mu_last.steps = SubSeq(full, 1, Len(mu_last.steps))
           /\ (mu_last.steps = full) <=> (mu_last.fail \in {"none", "save"})
           /\ mu_last.raised <=> (mu_last.fail # "none")
           /\ mu_last.fail \notin {"none", "save"} =>
                 saved_models = mu_last.pre.saved_models
           /\ \A m \in ModelSet :
                 saved_models[m] # mu_last.pre.saved_models[m] =>
                    /\ mu_last.steps = full
                    /\ \A m2 \in ModelSet : models[m2] = mu_last.pre.models[m2] + fits
                    /\ saved_models[m] = models[m]

\* a refit that raised after it had refitted some of the models
C33_RefitInterrupted ==
    /\ mu_last.called /\ mu_last.due
    /\ mu_last.fail = "retrain"
    /\ \E m1, m2 \in ModelSet : models[m1] # models[m2]
    /\ saved_models = mu_last.pre.saved_models

\* the entries the last check_anomalies call was given, as it appended them
SubmittedBatch ==
    IF am_last.batch = NotAFrame THEN <<>>
    ELSE [i \in 1..am_last.batch |->
            [timestamp |-> am_last.time, id |-> am_next_id - am_last.batch + i - 1]]

\* the entries of h appended less than window seconds before the instant t
Recent(h, t) == SelectSeq(h, LAMBDA a : t - a.timestamp < am_cfg.window)

\* every entry of the history was appended less than window seconds before
\* the last call
AllRecent == Recent(anomaly_history, am_last.time) = anomaly_history

C35_ArrivalOrder ==
    /\ \A i \in 1..Len(anomaly_history) :
          anomaly_history[i].id = am_next_id - Len(anomaly_history) + i - 1
    /\ \A i, j \in 1..Len(anomaly_history) :
          i < j => anomaly_history[i].timestamp <= anomaly_history[j].timestamp
    /\ (am_last.called /\ am_last.batch # NotAFrame /\ ~am_last.reached) =>
          anomaly_history = Recent(am_last.pre \o SubmittedBatch, am_last.time)

\* a history of entries of two calls, the earlier events pruned or cleared
C35_TwoCallsKept ==
    /\ Len(anomaly_history) >= 2
    /\ anomaly_history[1].timestamp < anomaly_history[2].timestamp
    /\ anomaly_history[1].id > 1

\* C36: between resets every update that returns a result adds exactly 1 to
\* total_logs, and 1 to total_anomalies exactly when the event is classified
\* anomalous (score > threshold); no update takes anything off the counters,
\* whether a score leaves the window or the alert condition holds; and
\* current_anomaly_ratio is always total_anomalies / total_logs.
C36_CumulativeCounters ==
    [][ /\ (rt_last'.op = "update" /\ rt_last'.returned) =>
              /\ stats'.total_logs = stats.total_logs + 1
              /\ stats'.total_anomalies =
                    stats.total_anomalies + (IF rt_last'.is_anomaly THEN 1 ELSE 0)
              /\ rt_last'.is_anomaly <=> exceeds(rt_last'.score, rt_last'.threshold)
        /\ rt_last'.op = "update" =>
              /\ stats'.total_logs >= stats.total_logs
              /\ stats'.total_anomalies >= stats.total_anomalies
        /\ stats'.total_logs > 0 =>
              stats'.current_anomaly_ratio[1] * stats'.total_logs
                 = stats'.total_anomalies * stats'.current_anomaly_ratio[2] ]_vars

\* C37: in the monitoring loop an event whose detection result has
\* is_anomaly false (no rules file is configured) adds no entry to the alert
\* history: the alert manager is handed nothing for it.
C37_OnlyAnomaliesCounted ==
    [][ (rt_last'.op = "update" /\ rt_last'.returned /\ ~rt_last'.is_anomaly
           /\ stats'.total_logs = stats.total_logs + 1) =>
          /\ am_next_id' = am_next_id
          /\ Len(anomaly_history') <= Len(anomaly_history) ]_vars

\* the last call was a get that hit an entry older than the TTL
StaleHit == vc_last.op = "get" /\ vc_last.stale

\* the step is a put, the first call after the get of vc_last, and it runs
\* the cleanup
CleanupAfterGet ==
    /\ vc_last.op = "get"
    /\ vc_last'.op = "put" /\ vc_last'.tokens \in TokenLists
    /\ now' = now
    /\ Cardinality(CacheKeys(cache) \cup {get_hash(vc_last'.tokens)}) >= max_size

\* C38 as stated: a get returns an entry whose last access is older than the
\* TTL (no cleanup has removed it) and sets its access time to the instant
\* of the hit, and the next cleanup keeps the entry.
C38_StaleHitKept ==
    [][ /\ (vc_last'.op = "get" /\ vc_last'.stale /\ now' = now) =>
              /\ vc_last'.ret = cache[get_hash(vc_last'.tokens)]
              /\ vc_last'.ret # NoVec
              /\ AtGet(access_times', get_hash(vc_last'.tokens)) = now
        /\ (StaleHit /\ CleanupAfterGet) =>
              cache'[get_hash(vc_last.tokens)] # NoVec ]_vars

\* C38 amended: the same get; the next cleanup, when it runs within the TTL
\* of the hit, does not remove the entry as expired: it removes the entry
\* only in its size pass, when the cache is above max_size and no entry it
\* keeps was accessed before the hit; when it runs later than the TTL after
\* the hit it removes the entry.
C38_StaleHitNotExpired ==
    [][ /\ (vc_last'.op = "get" /\ vc_last'.stale /\ now' = now) =>
              /\ vc_last'.ret = cache[get_hash(vc_last'.tokens)]
              /\ vc_last'.ret # NoVec
              /\ AtGet(access_times', get_hash(vc_last'.tokens)) = now
        /\ (StaleHit /\ CleanupAfterGet) =>
              LET key  == get_hash(vc_last.tokens)
                  hit  == AtGet(access_times, key)
                  kept == CacheKeys(cache') \ {key, get_hash(vc_last'.tokens)}
              IN IF get_hash(vc_last'.tokens) = key THEN cache'[key] # NoVec
                 ELSE IF now - hit > ttl THEN cache'[key] = NoVec
                 ELSE cache'[key] = NoVec =>
                        /\ len(cache') = max_size
                        /\ \A k \in kept : AtGet(access_times', k) >= hit ]_vars

\* a get has just hit an entry that was older than the TTL, next to another
\* entry, and the entry now carries the instant of the hit
C38_StaleHitRefreshed ==
    /\ StaleHit
    /\ vc_last.ret # NoVec
    /\ AtGet(access_times, get_hash(vc_last.tokens)) = now
    /\ len(cache) = 2

\* C39: in adaptive mode the threshold of an update is +infinity while the
\* window holds fewer than 2 scores, and in both modes the first event fed
\* to a fresh or reset detector is not classified anomalous, whatever its
\* score: no anomaly is counted for it.
C39_FirstEventNeverAnomalous ==
    /\ (rt_last.op = "update" /\ rt_last.returned /\ rt_cfg.adaptive_threshold
           /\ Len(score_window) < 2) =>
          /\ rt_last.threshold = ThresholdInf
          /\ stats.current_threshold = ThresholdInf
    /\ (rt_last.op = "update" /\ rt_last.returned /\ rt_fed = 1) =>
          /\ Len(score_window) = 1
          /\ ~rt_last.is_anomaly
          /\ stats.total_anomalies = 0

\* the highest score was the first event after a reset of a detector with a
\* fixed threshold, and the result says it is not an anomaly
C39_HighScoreFirstAfterReset ==
    /\ rt_was_reset
    /\ ~rt_cfg.adaptive_threshold
    /\ rt_last.op = "update" /\ rt_last.returned
    /\ rt_fed = 1
    /\ rt_last.score = 50
    /\ ~rt_last.is_anomaly

====
